---- MODULE Spec2Model ----
(***************************************************************************)
(* A model of the Gantt widget: the task derivation pipeline of            *)
(* DataProcessor, the window / grouping / bar layout of GanttChart and     *)
(* GanttBar, the drag controller of GanttBar, and the asynchronous steps   *)
(* of App and MondayService.                                               *)
(*                                                                         *)
(* Representation.                                                         *)
(*  - A calendar date is [day |-> n], n counted in days from 2024-01-01    *)
(*    (so 2024-03-01 is day 60); a date-only text is read by JavaScript    *)
(*    as midnight of that day, any other text gives InvalidDate.  NULL is  *)
(*    the null date.                                                       *)
(*  - A text that is compared or lower-cased (item name, field text,       *)
(*    group label) is a sequence of character codes: 0 is the space,       *)
(*    1..26 are a..z, 101..126 are A..Z.                                   *)
(*  - An identifier, a type tag, a field title or a colour is a string;    *)
(*    Unset is the absent (undefined or empty, falsy) string.              *)
(*  - A field payload (cv.value) is NoValue (null or empty), NotJson or    *)
(*    NotJsonText(s) (a text JSON.parse rejects) or Json(v), the JSON      *)
(*    text of the value v.                                                 *)
(*  - A JavaScript number is Num(n) or NaN; a pixel quantity is a          *)
(*    fraction [num, den] with den > 0, or NaNFrac.                        *)
(***************************************************************************)
EXTENDS Integers, Sequences, FiniteSets, TLC

VARIABLES
    env,            \* the widget's surroundings: what the board source returns,
                    \* the stored settings and window.innerWidth
    boards,         \* DataProcessor.boards
    allItems,       \* DataProcessor.allItems, in Object.entries order
    mirrorMappings, \* DataProcessor.mirrorMappings
    settings,       \* App state: settings
    tasks,          \* App state: tasks
    effectDue,      \* the effect on [boards, settings] has still to run
    chart,          \* the last render of GanttChart (its memoized values)
    isDragging,     \* GanttBar state
    dragType,       \* GanttBar state
    dragStartRef,   \* GanttBar ref: the anchor, or NoAnchor
    listeners,      \* the document's mousemove/mouseup listener pairs, each
                    \* with what its closures captured
    lastEmitted,    \* the onUpdate calls made by the latest event
    probe,          \* the first onUpdate call of the oldest running drag session
    loading,        \* App state: loading
    error,          \* App state: error (Unset for null)
    isRefreshing,   \* App state: isRefreshing
    notice,         \* the type of the latest showNotice (Unset before the first)
    initPc,         \* where initializeWidget stands: "start", awaiting "settings",
                    \* "boards" or "mirrors", or "done"
    mirrorCalls,    \* loadMirrorMappings: the boards whose getMirrorColumnMappings
                    \* call is running, and the mappings collected so far
    loads,          \* the running loadTasks calls, each with what it captured
                    \* and the state of its getAllBoardItems call
    lastLoad,       \* the latest getAllBoardItems call that returned: the ids
                    \* asked for, the boards whose retrieval logged an error,
                    \* the order of completion
    saves           \* the number of running saveWidgetSettings calls of
                    \* handleSettingsChange

vars == <<env, boards, allItems, mirrorMappings, settings, tasks, effectDue, chart,
          isDragging, dragType, dragStartRef, listeners, lastEmitted, probe,
          loading, error, isRefreshing, notice, initPc, mirrorCalls, loads, lastLoad, saves>>

asyncVars == <<loading, error, isRefreshing, notice, initPc, mirrorCalls, loads, lastLoad, saves>>

pipelineVars ==
    <<env, boards, allItems, mirrorMappings, settings, tasks, effectDue, chart,
      loading, error, isRefreshing, notice, initPc, mirrorCalls, loads, lastLoad, saves>>

dragVars == <<isDragging, dragType, dragStartRef, listeners, lastEmitted, probe>>

----------------------------------------------------------------------------
(* Values *)

NULL == [null |-> TRUE]

Date(n) == [day |-> n]

Unset == ""

\* the elements of an array
SeqToSet(s) == {s[i] : i \in 1..Len(s)}

Min(a, b) == IF a <= b THEN a ELSE b

Max(a, b) == IF a >= b THEN a ELSE b

Num(n) == [t |-> "number", n |-> n]

NaN == [t |-> "NaN", n |-> 0]

\* JavaScript values a payload decodes to
JNull == [t |-> "null"]

JUndefined == [t |-> "undefined"]

JNum(n) == [t |-> "number", n |-> n]

\* a string that is not the text of a date
JStr(s) == [t |-> "string", s |-> s, day |-> 0]

\* the string "YYYY-MM-DD" of day n
JIsoDate(n) == [t |-> "string", s |-> "YYYY-MM-DD", day |-> n]

\* an object; f maps its keys to values
JObj(f) == [t |-> "object", f |-> f]

JArr(a) == [t |-> "array", a |-> a]

NoValue == [k |-> "none"]

NotJson == [k |-> "notjson"]

\* a payload that is not JSON, with its characters
NotJsonText(s) == [k |-> "notjson", s |-> s]

Json(v) == [k |-> "json", v |-> v]

\* !raw
Falsy(raw) == raw.k = "none"

\* JSON.parse(raw): raises on a text that is not JSON
JSONparse(raw) ==
    IF raw.k = "json" THEN [ok |-> TRUE, v |-> raw.v]
    ELSE [ok |-> FALSE, v |-> JUndefined]

\* whether reading a property of v raises a TypeError
GetThrows(v) == v.t \in {"null", "undefined"}

\* v[key] for a value whose properties can be read
Get(v, key) ==
    IF v.t = "object" /\ key \in DOMAIN v.f THEN v.f[key] ELSE JUndefined

\* the truthiness of a JavaScript value
Truthy(v) ==
    CASE v.t \in {"null", "undefined", "NaN"} -> FALSE
      [] v.t = "number" -> v.n # 0
      [] v.t = "string" -> v.s # ""
      [] OTHER -> TRUE

\* the numeric strings of the payloads
NumericStrings == {"50", "250"}

\* ToNumber(v): the coercion Math.min and Math.max apply to an argument
ToNumber(v) ==
    CASE v.t = "number" -> Num(v.n)
      [] v.t = "null" -> Num(0)
      [] v.t = "string" ->
            IF v.s = "" THEN Num(0)
            ELSE IF v.s = "50" THEN Num(50)
            ELSE IF v.s = "250" THEN Num(250)
            ELSE NaN
      [] v.t = "array" ->
            IF Len(v.a) = 0 THEN Num(0)
            ELSE IF Len(v.a) = 1 /\ v.a[1].t = "number" THEN Num(v.a[1].n)
            ELSE NaN
      [] OTHER -> NaN

\* Math.min(a, b) and Math.max(a, b) on numbers: NaN if either is NaN
MathMin(a, b) ==
    IF a.t = "NaN" \/ b.t = "NaN" THEN NaN ELSE Num(Min(a.n, b.n))

MathMax(a, b) ==
    IF a.t = "NaN" \/ b.t = "NaN" THEN NaN ELSE Num(Max(a.n, b.n))

\* find: the elements of seq satisfying Test, first one first
Find(seq, Test(_)) == SelectSeq(seq, Test)

----------------------------------------------------------------------------
(* DataProcessor: field extraction *)

DefaultColor == "#037f4c"

NoGroupLabel == <<114, 15, 0, 107, 18, 15, 21, 16>>

UnknownLabel == <<121, 14, 11, 14, 15, 23, 14>>

\* the titles that contain "progress", "complete" or "%", whatever the case
ProgressTitles == {"Progress", "% Complete", "COMPLETED"}

\* an Invalid Date: a Date object, so truthy and not null, without a day
InvalidDate == [invalid |-> TRUE]

\* new Date(v) for the truthy value of a from / to / date key (a string in
\* every payload here): the date of a date text, Invalid Date of another text
NewDate(v) ==
    IF v.t = "string" /\ v.s = "YYYY-MM-DD" THEN Date(v.day) ELSE InvalidDate

\* extractTimelineData
extractTimelineData(item, timelineColumnId) ==
    LET found == IF timelineColumnId # Unset
                 THEN Find(item.column_values, LAMBDA cv : cv.id = timelineColumnId)
                 ELSE Find(item.column_values,
                           LAMBDA cv : cv.type \in {"timeline", "date", "creation_log"})
        none == [from |-> NULL, to |-> NULL]
    IN  IF found = <<>> \/ Falsy(found[1].value) THEN none
        ELSE LET timelineColumn == found[1]
                 parsed == JSONparse(timelineColumn.value)
             IN  IF timelineColumn.type = "timeline" THEN
                     IF ~parsed.ok \/ GetThrows(parsed.v) THEN none
                     ELSE [from |-> IF Truthy(Get(parsed.v, "from"))
                                    THEN NewDate(Get(parsed.v, "from")) ELSE NULL,
                           to   |-> IF Truthy(Get(parsed.v, "to"))
                                    THEN NewDate(Get(parsed.v, "to")) ELSE NULL]
                 ELSE IF timelineColumn.type = "date" THEN
                     IF ~parsed.ok \/ GetThrows(parsed.v) THEN none
                     ELSE LET date == IF Truthy(Get(parsed.v, "date"))
                                      THEN NewDate(Get(parsed.v, "date")) ELSE NULL
                          IN  [from |-> date, to |-> date]
                 ELSE none

\* extractMirrorData: a function from mirror field id to its datum
extractMirrorData(item, boardId) ==
    LET mappings == IF boardId \in DOMAIN mirrorMappings
                    THEN mirrorMappings[boardId] ELSE <<>>
        Col(m) == Find(item.column_values, LAMBDA cv : cv.id = m.mirrorColumnId)
        live == {i \in 1..Len(mappings) :
                    Col(mappings[i]) # <<>> /\ ~Falsy(Col(mappings[i])[1].value)}
        \* a later mapping of the same mirror field overwrites an earlier one
        Last(id) == CHOOSE i \in live :
                        /\ mappings[i].mirrorColumnId = id
                        /\ \A j \in live : mappings[j].mirrorColumnId = id => j <= i
    IN  [id \in {mappings[i].mirrorColumnId : i \in live} |->
            LET m == mappings[Last(id)]
                mirrorColumn == Col(m)[1]
                parsed == JSONparse(mirrorColumn.value)
            IN  [displayValue |-> mirrorColumn.text,
                 rawValue |-> IF parsed.ok THEN [parsed |-> TRUE, v |-> parsed.v]
                              \* the payload itself is kept when it is not JSON
                              ELSE [parsed |-> FALSE, v |-> JUndefined,
                                    raw |-> mirrorColumn.value],
                 sourceColumnTitle |-> m.sourceColumnTitle,
                 sourceBoardName |-> m.sourceBoardName,
                 type |-> mirrorColumn.type]]

\* extractProgress
extractProgress(item) ==
    LET found == Find(item.column_values,
                      LAMBDA cv : cv.type = "numeric" /\ cv.title \in ProgressTitles)
    IN  IF found # <<>> /\ ~Falsy(found[1].value) THEN
            LET parsed == JSONparse(found[1].value)
            IN  IF ~parsed.ok THEN Num(0)
                ELSE MathMax(Num(0), MathMin(Num(100),
                        IF Truthy(parsed.v) THEN ToNumber(parsed.v) ELSE Num(0)))
        ELSE Num(0)

\* colorData.color || '#037f4c' for a decoded value
ColorOf(v) ==
    IF Truthy(Get(v, "color")) /\ Get(v, "color").t = "string"
    THEN Get(v, "color").s ELSE DefaultColor

\* getColorFromValue
getColorFromValue(mirrorValue) ==
    IF mirrorValue.type \in {"color", "status"} THEN
        \* an undecodable payload is kept as a string, and parsing it raises again
        IF ~mirrorValue.rawValue.parsed THEN DefaultColor
        ELSE IF ~Truthy(mirrorValue.rawValue.v) THEN DefaultColor
        ELSE ColorOf(mirrorValue.rawValue.v)
    ELSE DefaultColor

\* getColorFromColumnValue
getColorFromColumnValue(column) ==
    IF Falsy(column.value) THEN DefaultColor
    ELSE IF column.type \in {"color", "status", "dropdown"} THEN
        LET parsed == JSONparse(column.value)
        IN  IF ~parsed.ok \/ GetThrows(parsed.v) THEN DefaultColor
            ELSE ColorOf(parsed.v)
    ELSE DefaultColor

\* extractColor that looks at the item's own field before the mirror data
extractColor_ownFieldFirst(item, colorByColumnId, mirrorData) ==
    LET colorColumn == Find(item.column_values, LAMBDA cv : cv.id = colorByColumnId)
    IN  IF colorByColumnId # Unset /\ colorColumn # <<>>
        THEN getColorFromColumnValue(colorColumn[1])
        ELSE IF colorByColumnId # Unset /\ colorByColumnId \in DOMAIN mirrorData
        THEN getColorFromValue(mirrorData[colorByColumnId])
        ELSE IF item.group.present THEN item.group.color
        ELSE DefaultColor

\* extractColor
extractColor(item, colorByColumnId, mirrorData) ==
    LET colorColumn == Find(item.column_values, LAMBDA cv : cv.id = colorByColumnId)
    IN  IF colorByColumnId # Unset /\ colorByColumnId \in DOMAIN mirrorData
        THEN getColorFromValue(mirrorData[colorByColumnId])
        ELSE IF colorByColumnId # Unset /\ colorColumn # <<>>
        THEN getColorFromColumnValue(colorColumn[1])
        ELSE IF item.group.present THEN item.group.color
        ELSE DefaultColor

\* extractGroup
extractGroup(item, groupByColumnId, mirrorData) ==
    LET groupColumn == Find(item.column_values, LAMBDA cv : cv.id = groupByColumnId)
    IN  IF groupByColumnId # Unset /\ groupByColumnId \in DOMAIN mirrorData
        THEN IF mirrorData[groupByColumnId].displayValue # <<>>
             THEN mirrorData[groupByColumnId].displayValue ELSE UnknownLabel
        ELSE IF groupByColumnId # Unset /\ groupColumn # <<>>
        THEN IF groupColumn[1].text # <<>> THEN groupColumn[1].text ELSE UnknownLabel
        ELSE IF item.group.present /\ item.group.title # <<>> THEN item.group.title
        ELSE NoGroupLabel

\* convertItemToGanttTask with the missing endpoint filled in from the other one
convertItemToGanttTask_filled(item, board, stg, parentId) ==
    LET timelineData == extractTimelineData(item, stg.timelineColumn)
        mirrorData == extractMirrorData(item, board.id)
        from == IF timelineData.from = NULL THEN timelineData.to ELSE timelineData.from
        to == IF timelineData.to = NULL THEN timelineData.from ELSE timelineData.to
    IN  IF timelineData.from = NULL /\ timelineData.to = NULL THEN <<>>
        ELSE << [id |-> item.id,
                 name |-> item.name,
                 startDate |-> from,
                 endDate |-> to,
                 progress |-> extractProgress(item),
                 color |-> extractColor(item, stg.colorByColumn, mirrorData),
                 group |-> extractGroup(item, stg.groupByColumn, mirrorData),
                 boardId |-> board.id,
                 boardName |-> board.name,
                 parentId |-> parentId,
                 originalItem |-> item,
                 mirrorData |-> mirrorData] >>

\* convertItemToGanttTask: <<>> for null, else the one task
convertItemToGanttTask(item, board, stg, parentId) ==
    LET timelineData == extractTimelineData(item, stg.timelineColumn)
        mirrorData == extractMirrorData(item, board.id)
    IN  IF timelineData.from = NULL /\ timelineData.to = NULL THEN <<>>
        ELSE << [id |-> item.id,
                 name |-> item.name,
                 startDate |-> timelineData.from,
                 endDate |-> timelineData.to,
                 progress |-> extractProgress(item),
                 color |-> extractColor(item, stg.colorByColumn, mirrorData),
                 group |-> extractGroup(item, stg.groupByColumn, mirrorData),
                 boardId |-> board.id,
                 boardName |-> board.name,
                 parentId |-> parentId,
                 originalItem |-> item,
                 mirrorData |-> mirrorData] >>

----------------------------------------------------------------------------
(* DataProcessor: sorting *)

\* toLowerCase on one character code
LowerChar(c) == IF c > 100 THEN c - 100 ELSE c

\* toLowerCase
ToLowerCase(s) == [i \in 1..Len(s) |-> LowerChar(s[i])]

\* the first letters of String(date).toLowerCase(): the weekday and a space.
\* The rest of the text is left out: such a text only meets '' and 'zzz'.
DateString(d) ==
    LET w == d.day % 7
    IN  CASE w = 0 -> <<13, 15, 14, 0>>
          [] w = 1 -> <<20, 21, 5, 0>>
          [] w = 2 -> <<23, 5, 4, 0>>
          [] w = 3 -> <<20, 8, 21, 0>>
          [] w = 4 -> <<6, 18, 9, 0>>
          [] w = 5 -> <<19, 1, 20, 0>>
          [] w = 6 -> <<19, 21, 14, 0>>

EmptyText == <<>>

ZzzText == <<26, 26, 26>>

\* a.localeCompare(b) on lower-cased texts: -1, 0 or 1
localeCompare(a, b) ==
    LET differ == {i \in 1..Min(Len(a), Len(b)) : a[i] # b[i]}
        first == CHOOSE i \in differ : \A j \in differ : i <= j
    IN  IF differ # {} THEN (IF a[first] < b[first] THEN 0 - 1 ELSE 1)
        ELSE IF Len(a) < Len(b) THEN 0 - 1
        ELSE IF Len(a) > Len(b) THEN 1
        ELSE 0

\* the values the comparator handles
TextVal(s) == [k |-> "text", s |-> s, n |-> 0]

DateVal(d) == [k |-> "date", s |-> <<>>, n |-> d.day]

NumVal(n) == [k |-> "number", s |-> <<>>, n |-> n]

NaNVal == [k |-> "NaN", s |-> <<>>, n |-> 0]

NullVal == [k |-> "null", s |-> <<>>, n |-> 0]

OfDate(d) ==
    IF d = NULL THEN NullVal ELSE IF d = InvalidDate THEN NaNVal ELSE DateVal(d)

\* parseFloat(v) for a decoded value
parseFloat(v) ==
    LET n == ToNumber(v)
    IN  CASE v.t = "number" -> NumVal(v.n)
          [] v.t = "string" /\ v.s \in NumericStrings -> NumVal(n.n)
          [] v.t = "array" /\ Len(v.a) >= 1 /\ v.a[1].t = "number" -> NumVal(v.a[1].n)
          [] OTHER -> NaNVal

\* JSON.parse(column?.value || '0')
ParseOrZero(found) ==
    IF found = <<>> \/ Falsy(found[1].value) THEN [ok |-> TRUE, v |-> JNum(0)]
    ELSE JSONparse(found[1].value)

\* the pair <<aValue, bValue>> the comparator reads for a sort key
SortValues(a, b, sortByColumn) ==
    IF sortByColumn = "name" THEN <<TextVal(a.name), TextVal(b.name)>>
    ELSE IF sortByColumn = "start_date" THEN <<OfDate(a.startDate), OfDate(b.startDate)>>
    ELSE IF sortByColumn = "end_date" THEN <<OfDate(a.endDate), OfDate(b.endDate)>>
    ELSE LET aColumn == Find(a.originalItem.column_values, LAMBDA cv : cv.id = sortByColumn)
             bColumn == Find(b.originalItem.column_values, LAMBDA cv : cv.id = sortByColumn)
             aText == IF aColumn = <<>> THEN EmptyText ELSE aColumn[1].text
             bText == IF bColumn = <<>> THEN EmptyText ELSE bColumn[1].text
         IN  IF aColumn # <<>> /\ aColumn[1].type \in {"numeric", "rating"} THEN
                 IF ParseOrZero(aColumn).ok /\ ParseOrZero(bColumn).ok
                 THEN <<parseFloat(ParseOrZero(aColumn).v), parseFloat(ParseOrZero(bColumn).v)>>
                 ELSE <<NumVal(0), NumVal(0)>>
             ELSE <<TextVal(aText), TextVal(bText)>>

\* null or undefined becomes '' under asc and 'zzz' under desc
ReplaceNull(v, direction) ==
    IF v.k = "null"
    THEN IF direction = "asc" THEN TextVal(EmptyText) ELSE TextVal(ZzzText)
    ELSE v

\* String(v).toLowerCase() of a value that reaches the text comparison
LowerString(v) ==
    CASE v.k = "text" -> ToLowerCase(v.s)
      [] v.k = "date" -> DateString(Date(v.n))

\* the comparator of sortTasks; NaN stands for a NaN result
compare(a, b, sortByColumn, direction) ==
    LET raw == SortValues(a, b, sortByColumn)
        aValue == ReplaceNull(raw[1], direction)
        bValue == ReplaceNull(raw[2], direction)
    IN  IF aValue.k = "date" /\ bValue.k = "date" THEN
            IF direction = "asc" THEN Num(aValue.n - bValue.n) ELSE Num(bValue.n - aValue.n)
        ELSE IF aValue.k \in {"number", "NaN"} /\ bValue.k \in {"number", "NaN"} THEN
            IF aValue.k = "NaN" \/ bValue.k = "NaN" THEN NaN
            ELSE IF direction = "asc" THEN Num(aValue.n - bValue.n)
            ELSE Num(bValue.n - aValue.n)
        ELSE IF direction = "asc"
             THEN Num(localeCompare(LowerString(aValue), LowerString(bValue)))
             ELSE Num(localeCompare(LowerString(bValue), LowerString(aValue)))

\* the sign Array.prototype.sort reads from a comparator result (NaN counts as 0)
Sign(r) == IF r.t = "NaN" THEN 0 ELSE IF r.n < 0 THEN -1 ELSE IF r.n > 0 THEN 1 ELSE 0

Order(a, b, key, direction) == Sign(compare(a, b, key, direction))

Reverse(s) == [i \in 1..Len(s) |-> s[Len(s) + 1 - i]]

\* the length of the run that starts the array: strictly descending, or not descending
RECURSIVE RunEnd(_, _, _, _, _)
RunEnd(s, i, descending, key, direction) ==
    IF i > Len(s) THEN Len(s)
    ELSE IF descending = (Order(s[i], s[i - 1], key, direction) < 0)
    THEN RunEnd(s, i + 1, descending, key, direction)
    ELSE i - 1

\* the place binary insertion finds for pivot in the sorted prefix s[left+1 .. right]
RECURSIVE InsertionPoint(_, _, _, _, _, _)
InsertionPoint(s, pivot, left, right, key, direction) ==
    IF left >= right THEN left
    ELSE LET mid == left + ((right - left) \div 2)
         IN  IF Order(pivot, s[mid + 1], key, direction) < 0
             THEN InsertionPoint(s, pivot, left, mid, key, direction)
             ELSE InsertionPoint(s, pivot, mid + 1, right, key, direction)

RECURSIVE BinaryInsertion(_, _, _, _)
BinaryInsertion(s, start, key, direction) ==
    IF start > Len(s) THEN s
    ELSE LET pivot == s[start]
             at == InsertionPoint(s, pivot, 0, start - 1, key, direction)
             moved == SubSeq(s, 1, at) \o <<pivot>> \o SubSeq(s, at + 1, start - 1)
                        \o SubSeq(s, start + 1, Len(s))
         IN  BinaryInsertion(moved, start + 1, key, direction)

\* sortTasks by a sort that takes a tie for a descent, and so reverses ties
sortTasks_tiesReversed(ts, sortByColumn, direction) ==
    IF Len(ts) < 2 THEN ts
    ELSE LET descending == Order(ts[2], ts[1], sortByColumn, direction) <= 0
             run == RunEnd(ts, 3, descending, sortByColumn, direction)
             first == IF descending
                      THEN Reverse(SubSeq(ts, 1, run)) \o SubSeq(ts, run + 1, Len(ts))
                      ELSE ts
         IN  BinaryInsertion(first, run + 1, sortByColumn, direction)

\* sortTasks: Array.prototype.sort on a short array (one run, then binary insertion)
sortTasks(ts, sortByColumn, direction) ==
    IF Len(ts) < 2 THEN ts
    ELSE LET descending == Order(ts[2], ts[1], sortByColumn, direction) < 0
             run == RunEnd(ts, 3, descending, sortByColumn, direction)
             first == IF descending
                      THEN Reverse(SubSeq(ts, 1, run)) \o SubSeq(ts, run + 1, Len(ts))
                      ELSE ts
         IN  BinaryInsertion(first, run + 1, sortByColumn, direction)

\* applySettingsToTasks
applySettingsToTasks(ts, stg) ==
    IF stg.sortByColumn # Unset /\ stg.sortDirection # Unset
    THEN sortTasks(ts, stg.sortByColumn, stg.sortDirection)
    ELSE ts

----------------------------------------------------------------------------
(* DataProcessor: derivation *)

RECURSIVE Flatten(_)
Flatten(ss) == IF ss = <<>> THEN <<>> ELSE Head(ss) \o Flatten(Tail(ss))

\* the tasks of a root item whose subitems are converted although it gave no task
ItemTasks_orphanSubtasks(item, board, stg) ==
    LET task == convertItemToGanttTask(item, board, stg, Unset)
    IN  IF stg.showSubitems
        THEN task \o Flatten([i \in 1..Len(item.subitems) |->
                convertItemToGanttTask(item.subitems[i], board, stg, item.id)])
        ELSE task

\* the tasks one root item contributes
ItemTasks(item, board, stg) ==
    LET task == convertItemToGanttTask(item, board, stg, Unset)
    IN  IF task = <<>> THEN <<>>
        ELSE IF stg.showSubitems
        THEN task \o Flatten([i \in 1..Len(item.subitems) |->
                convertItemToGanttTask(item.subitems[i], board, stg, task[1].id)])
        ELSE task

\* the tasks one entry of this.allItems contributes
BoardTasks(entry, stg) ==
    LET board == Find(boards, LAMBDA b : b.id = entry.boardId)
    IN  IF board = <<>> THEN <<>>
        ELSE Flatten([i \in 1..Len(entry.items) |-> ItemTasks(entry.items[i], board[1], stg)])

\* processItemsToGanttTasks, with this.allItems as its first argument
processItemsToGanttTasks(items, stg) ==
    applySettingsToTasks(
        Flatten([e \in 1..Len(items) |-> BoardTasks(items[e], stg)]), stg)

----------------------------------------------------------------------------
(* GanttChart and GanttBar: window, scale, grouping, bar layout *)

PaddingDays == 7

MinAvailableWidth == 800

SidePanelWidth == 350

MinDayWidth == 20

EmptyDayWidth == 30

Frac(n, d) == [num |-> n, den |-> d]

FracLeq(a, b) == a.num * b.den <= b.num * a.den

FracMax(a, b) == IF FracLeq(b, a) THEN a ELSE b

FracTimes(a, k) == Frac(a.num * k, a.den)

FracHalf(a) == Frac(a.num, 2 * a.den)

FracPlus(a, b) == Frac(a.num * b.den + b.num * a.den, a.den * b.den)

\* NaN among the pixel quantities
NaNFrac == Frac(0, 0)

SeqMin(s) == CHOOSE m \in {s[i] : i \in 1..Len(s)} : \A i \in 1..Len(s) : m <= s[i]

SeqMax(s) == CHOOSE m \in {s[i] : i \in 1..Len(s)} : \A i \in 1..Len(s) : m >= s[i]

\* the truthy test of a task's date
HasDate(d) == d # NULL

\* validTasks
validTasksOf(ts) == SelectSeq(ts, LAMBDA t : HasDate(t.startDate) /\ HasDate(t.endDate))

\* dates: the start and end dates the reduce collects
datesOf(valid) ==
    Flatten([i \in 1..Len(valid) |->
        (IF HasDate(valid[i].startDate) THEN <<valid[i].startDate>> ELSE <<>>)
        \o (IF HasDate(valid[i].endDate) THEN <<valid[i].endDate>> ELSE <<>>)])

\* new Date(Math.min(...dates.map(d => d.getTime()))): an Invalid Date when
\* the time of one of the dates is NaN
MinDate(dates) ==
    IF \E i \in 1..Len(dates) : dates[i] = InvalidDate THEN InvalidDate
    ELSE Date(SeqMin([i \in 1..Len(dates) |-> dates[i].day]))

\* new Date(Math.max(...dates.map(d => d.getTime())))
MaxDate(dates) ==
    IF \E i \in 1..Len(dates) : dates[i] = InvalidDate THEN InvalidDate
    ELSE Date(SeqMax([i \in 1..Len(dates) |-> dates[i].day]))

\* moment(date).add(n, 'days').toDate()
AddDays(date, n) == IF date = InvalidDate THEN InvalidDate ELSE Date(date.day + n)

\* moment(a).diff(moment(b), 'days')
DiffDays(a, b) == IF a = InvalidDate \/ b = InvalidDate THEN NaN ELSE Num(a.day - b.day)

\* dateRange with the latest start taken for the latest date
dateRangeOf_startsOnly(valid) ==
    IF Len(valid) = 0 THEN [start |-> NULL, end |-> NULL]
    ELSE [start |-> AddDays(MinDate(datesOf(valid)), 0 - PaddingDays),
          end   |-> AddDays(MaxDate([i \in 1..Len(valid) |-> valid[i].startDate]),
                            PaddingDays)]

\* dateRange: {start: NULL, end: NULL} stands for null
dateRangeOf(valid) ==
    IF Len(valid) = 0 THEN [start |-> NULL, end |-> NULL]
    ELSE [start |-> AddDays(MinDate(datesOf(valid)), 0 - PaddingDays),
          end   |-> AddDays(MaxDate(datesOf(valid)), PaddingDays)]

\* dayWidth
dayWidthOf(valid, innerWidth) ==
    IF Len(valid) = 0 THEN Frac(EmptyDayWidth, 1)
    ELSE LET range == dateRangeOf(valid)
             totalDays == DiffDays(range.end, range.start)
             availableWidth == Max(MinAvailableWidth, innerWidth - SidePanelWidth)
         \* Math.max(20, availableWidth / NaN) is NaN
         IN  IF totalDays = NaN THEN NaNFrac
             ELSE FracMax(Frac(MinDayWidth, 1), Frac(availableWidth, totalDays.n))

\* findIndex(task => task.id === id), counted from 1; 0 when there is none
FindIndex(groupTasks, id) ==
    IF \E i \in 1..Len(groupTasks) : groupTasks[i].id = id
    THEN CHOOSE i \in 1..Len(groupTasks) :
            /\ groupTasks[i].id = id
            /\ \A j \in 1..(i - 1) : groupTasks[j].id # id
    ELSE 0

\* the subtask pushed at the end of its parent's bucket
SpliceAfterParent_pushed(groupTasks, subtask) ==
    IF FindIndex(groupTasks, subtask.parentId) = 0 THEN groupTasks
    ELSE Append(groupTasks, subtask)

\* the subtask spliced after its parent, or pushed when the parent is not there
SpliceAfterParent_orphanPushed(groupTasks, subtask) ==
    LET parentIndex == FindIndex(groupTasks, subtask.parentId)
    IN  IF parentIndex = 0 THEN Append(groupTasks, subtask)
        ELSE SubSeq(groupTasks, 1, parentIndex) \o <<subtask>>
               \o SubSeq(groupTasks, parentIndex + 1, Len(groupTasks))

\* splice(parentIndex + 1, 0, subtask) when the parent is in the bucket
SpliceAfterParent(groupTasks, subtask) ==
    LET parentIndex == FindIndex(groupTasks, subtask.parentId)
    IN  IF parentIndex = 0 THEN groupTasks
        ELSE SubSeq(groupTasks, 1, parentIndex) \o <<subtask>>
               \o SubSeq(groupTasks, parentIndex + 1, Len(groupTasks))

\* task.group || 'No Group'
GroupKey(task) == IF task.group # <<>> THEN task.group ELSE NoGroupLabel

\* "constructor"
Constructor == <<3, 15, 14, 19, 20, 18, 21, 3, 20, 15, 18>>

\* the names `groups`, an object literal, inherits from Object.prototype, of
\* which the checks use one: groups[name] is then truthy before the first loop
\* has stored anything under it, and is no array
InheritedKeys == {Constructor}

\* whether the first loop of groupedTasks throws: for a root task under an
\* inherited name no array is stored and groups[groupKey].push is no function
GroupingThrows(valid) ==
    \E i \in 1..Len(valid) :
        valid[i].parentId = Unset /\ GroupKey(valid[i]) \in InheritedKeys

\* the first loop of groupedTasks: the buckets in creation order, roots only
RECURSIVE RootBuckets(_, _)
RootBuckets(valid, groups) ==
    IF valid = <<>> THEN groups
    ELSE LET task == Head(valid)
             key == GroupKey(task)
             known == \E g \in 1..Len(groups) : groups[g].key = key
             withKey == IF known THEN groups
                        ELSE Append(groups, [key |-> key, tasks |-> <<>>])
             pushed == [g \in 1..Len(withKey) |->
                          IF withKey[g].key = key /\ task.parentId = Unset
                          THEN [withKey[g] EXCEPT !.tasks = Append(@, task)]
                          ELSE withKey[g]]
         IN  RootBuckets(Tail(valid), pushed)

\* the second loop of groupedTasks: each subtask goes after its parent
RECURSIVE PlaceOrphans(_, _)
PlaceOrphans(groups, orphans) ==
    IF orphans = <<>> THEN groups
    ELSE PlaceOrphans(
            [g \in 1..Len(groups) |->
                [groups[g] EXCEPT !.tasks = SpliceAfterParent(@, Head(orphans))]],
            Tail(orphans))

\* groupedTasks: the buckets in Object.entries order
groupedTasksOf(valid) ==
    PlaceOrphans(RootBuckets(valid, <<>>),
                 SelectSeq(valid, LAMBDA t : t.parentId # Unset))

\* the bar without the floor of half a day
barOf_unfloored(task, startDate, dayWidth) ==
    LET offset == DiffDays(task.startDate, startDate)
        length == DiffDays(task.endDate, task.startDate)
    IN  IF offset = NaN \/ length = NaN \/ dayWidth = NaNFrac
        THEN [leftOffset |-> NaNFrac, duration |-> NaN, width |-> NaNFrac]
        ELSE [leftOffset |-> FracTimes(dayWidth, offset.n),
              duration   |-> length.n + 1,
              width      |-> FracTimes(dayWidth, length.n + 1)]

\* GanttBar: leftOffset, duration and width of the bar of a task with both dates
barOf(task, startDate, dayWidth) ==
    LET offset == DiffDays(task.startDate, startDate)
        length == DiffDays(task.endDate, task.startDate)
    \* an Invalid Date among the dates of the list makes the window, dayWidth
    \* and with them every product and Math.max NaN
    IN  IF offset = NaN \/ length = NaN \/ dayWidth = NaNFrac
        THEN [leftOffset |-> NaNFrac, duration |-> NaN, width |-> NaNFrac]
        ELSE [leftOffset |-> FracTimes(dayWidth, offset.n),
              duration   |-> length.n + 1,
              width      |-> FracMax(FracTimes(dayWidth, length.n + 1), FracHalf(dayWidth))]

NotRendered ==
    [rendered |-> FALSE, tasks |-> <<>>, validTasks |-> <<>>,
     dateRange |-> [start |-> NULL, end |-> NULL], dayWidth |-> Frac(EmptyDayWidth, 1),
     groupedTasks |-> <<>>, bars |-> <<>>]

\* one render of GanttChart: the memoized values and the bar of every row;
\* when groupedTasks throws the render of these tasks gives nothing
GanttChart(ts, innerWidth) ==
    LET valid == validTasksOf(ts)
        range == dateRangeOf(valid)
        dayWidth == dayWidthOf(valid, innerWidth)
        groups == groupedTasksOf(valid)
    IN  IF GroupingThrows(valid) THEN [NotRendered EXCEPT !.tasks = ts]
        ELSE [rendered |-> TRUE,
              tasks |-> ts,
              validTasks |-> valid,
              dateRange |-> range,
              dayWidth |-> dayWidth,
              groupedTasks |-> groups,
              bars |-> [g \in 1..Len(groups) |->
                          [r \in 1..Len(groups[g].tasks) |->
                             barOf(groups[g].tasks[r], range.start, dayWidth)]]]

----------------------------------------------------------------------------
(* GanttBar: the drag controller of the bar of the first item *)

MaxSessions == 2

MaxPointer == 4

\* the clientX values of the pointer events
PointerXs == {10 * k : k \in 0..MaxPointer}

DragTypes == {"move", "resize-left", "resize-right"}

\* dragStartRef.current === null
NoAnchor == [set |-> FALSE, x |-> 0, startDate |-> NULL, endDate |-> NULL]

NoProbe == [set |-> FALSE, x |-> 0, startDate |-> NULL, endDate |-> NULL]

\* Math.round(p / q) for q > 0: halves go up
RoundDiv(p, q) == (2 * p + q) \div (2 * q)

\* Math.round(deltaX / dayWidth)
deltaDaysOf(deltaX, dayWidth) == RoundDiv(deltaX * dayWidth.den, dayWidth.num)

\* handleMouseMove of a resize-left drag that does not stop the start at the end
handleMouseMove_leftUnclamped(closure, ref, clientX) ==
    IF ~ref.set THEN <<>>
    ELSE LET deltaDays == deltaDaysOf(clientX - ref.x, closure.dayWidth)
             shiftedStart == AddDays(ref.startDate, deltaDays)
             shiftedEnd == AddDays(ref.endDate, deltaDays)
             range ==
                CASE closure.type = "move" -> <<shiftedStart, shiftedEnd>>
                  [] closure.type = "resize-left" -> <<shiftedStart, ref.endDate>>
                  [] closure.type = "resize-right" ->
                        <<ref.startDate,
                          IF shiftedEnd.day < ref.startDate.day
                          THEN ref.startDate ELSE shiftedEnd>>
         IN  << [taskId |-> closure.taskId, type |-> closure.type, x |-> clientX,
                 startDate |-> range[1], endDate |-> range[2]] >>

\* handleMouseMove of a resize-right drag that does not stop the end at the start
handleMouseMove_rightUnclamped(closure, ref, clientX) ==
    IF ~ref.set THEN <<>>
    ELSE LET deltaDays == deltaDaysOf(clientX - ref.x, closure.dayWidth)
             shiftedStart == AddDays(ref.startDate, deltaDays)
             shiftedEnd == AddDays(ref.endDate, deltaDays)
             range ==
                CASE closure.type = "move" -> <<shiftedStart, shiftedEnd>>
                  [] closure.type = "resize-left" ->
                        <<IF shiftedStart.day > ref.endDate.day
                          THEN ref.endDate ELSE shiftedStart,
                          ref.endDate>>
                  [] closure.type = "resize-right" -> <<ref.startDate, shiftedEnd>>
         IN  << [taskId |-> closure.taskId, type |-> closure.type, x |-> clientX,
                 startDate |-> range[1], endDate |-> range[2]] >>

\* handleMouseMove of a move drag that leaves the end where it was
handleMouseMove_startOnly(closure, ref, clientX) ==
    IF ~ref.set THEN <<>>
    ELSE LET deltaDays == deltaDaysOf(clientX - ref.x, closure.dayWidth)
             shiftedStart == AddDays(ref.startDate, deltaDays)
             shiftedEnd == AddDays(ref.endDate, deltaDays)
             range ==
                CASE closure.type = "move" -> <<shiftedStart, ref.endDate>>
                  [] closure.type = "resize-left" ->
                        <<IF shiftedStart.day > ref.endDate.day
                          THEN ref.endDate ELSE shiftedStart,
                          ref.endDate>>
                  [] closure.type = "resize-right" ->
                        <<ref.startDate,
                          IF shiftedEnd.day < ref.startDate.day
                          THEN ref.startDate ELSE shiftedEnd>>
         IN  << [taskId |-> closure.taskId, type |-> closure.type, x |-> clientX,
                 startDate |-> range[1], endDate |-> range[2]] >>

\* handleMouseMove of the listener pair closure, with dragStartRef.current = ref:
\* the onUpdate calls it makes (none, or one)
handleMouseMove(closure, ref, clientX) ==
    IF ~ref.set THEN <<>>
    ELSE LET deltaDays == deltaDaysOf(clientX - ref.x, closure.dayWidth)
             shiftedStart == AddDays(ref.startDate, deltaDays)
             shiftedEnd == AddDays(ref.endDate, deltaDays)
             range ==
                CASE closure.type = "move" -> <<shiftedStart, shiftedEnd>>
                  [] closure.type = "resize-left" ->
                        <<IF shiftedStart.day > ref.endDate.day
                          THEN ref.endDate ELSE shiftedStart,
                          ref.endDate>>
                  [] closure.type = "resize-right" ->
                        <<ref.startDate,
                          IF shiftedEnd.day < ref.startDate.day
                          THEN ref.startDate ELSE shiftedEnd>>
         IN  << [taskId |-> closure.taskId, type |-> closure.type, x |-> clientX,
                 startDate |-> range[1], endDate |-> range[2]] >>

\* the rows of the last render that show the first item
BarPlaces ==
    UNION {{<<g, r>> : r \in {q \in 1..Len(chart.groupedTasks[g].tasks) :
                                 chart.groupedTasks[g].tasks[q].id = "i1"}} :
             g \in 1..Len(chart.groupedTasks)}

\* the task prop of the bar
BarTask == LET p == CHOOSE q \in BarPlaces : TRUE
           IN  chart.groupedTasks[p[1]].tasks[p[2]]

\* handleMouseDown(e, type) on the bar or one of its handles, with e.clientX = clientX
MouseDown(clientX, type) ==
    /\ chart.rendered
    /\ BarPlaces # {}
    /\ Len(listeners) < MaxSessions
    /\ isDragging' = TRUE
    /\ dragType' = type
    /\ dragStartRef' = [set |-> TRUE, x |-> clientX,
                        startDate |-> BarTask.startDate, endDate |-> BarTask.endDate]
    /\ listeners' = Append(listeners,
                        [type |-> type, dayWidth |-> chart.dayWidth, taskId |-> BarTask.id])
    /\ lastEmitted' = <<>>
    /\ UNCHANGED probe
    /\ UNCHANGED pipelineVars

\* a mousemove event on the document: every registered handleMouseMove runs
MouseMove(clientX) ==
    LET calls == Flatten([i \in 1..Len(listeners) |->
                    LET u == handleMouseMove(listeners[i], dragStartRef, clientX)
                    IN  IF u = <<>> THEN <<>>
                        ELSE << [session |-> i, taskId |-> u[1].taskId, type |-> u[1].type,
                                 x |-> u[1].x, startDate |-> u[1].startDate,
                                 endDate |-> u[1].endDate] >>])
    IN  /\ lastEmitted' = calls
        /\ probe' = IF ~probe.set /\ calls # <<>> /\ calls[1].session = 1
                    THEN [set |-> TRUE, x |-> clientX,
                          startDate |-> calls[1].startDate, endDate |-> calls[1].endDate]
                    ELSE probe
        /\ UNCHANGED <<isDragging, dragType, dragStartRef, listeners>>
        /\ UNCHANGED pipelineVars

\* a mouseup event whose handlers leave the document listeners registered
MouseUp_listenersKept ==
    /\ IF listeners # <<>>
       THEN /\ isDragging' = FALSE
            /\ dragType' = Unset
            /\ dragStartRef' = NoAnchor
       ELSE UNCHANGED <<isDragging, dragType, dragStartRef>>
    /\ lastEmitted' = <<>>
    /\ probe' = NoProbe
    /\ UNCHANGED listeners
    /\ UNCHANGED pipelineVars

\* a mouseup event on the document: every registered handleMouseUp runs
MouseUp ==
    /\ IF listeners # <<>>
       THEN /\ isDragging' = FALSE
            /\ dragType' = Unset
            /\ dragStartRef' = NoAnchor
       ELSE UNCHANGED <<isDragging, dragType, dragStartRef>>
    /\ listeners' = <<>>
    /\ lastEmitted' = <<>>
    /\ probe' = NoProbe
    /\ UNCHANGED pipelineVars

----------------------------------------------------------------------------
(* App: the steps that load and show the tasks *)

DefaultSettings ==
    [timelineColumn |-> Unset, colorByColumn |-> Unset, groupByColumn |-> Unset,
     sortByColumn |-> Unset, sortDirection |-> "asc", showSubitems |-> TRUE,
     selectedBoards |-> <<>>]

\* no getMirrorColumnMappings call is running
NoMirrorCalls == [pending |-> {}, mappings |-> <<>>]

\* no getAllBoardItems call has returned
NoLoad == [done |-> FALSE, ids |-> <<>>, failed |-> {}, order |-> <<>>, refresh |-> FALSE]

\* the state after construction, in the surroundings e
Constructed(e) ==
    /\ env = e
    /\ boards = <<>>
    /\ allItems = <<>>
    /\ mirrorMappings = <<>>
    /\ settings = DefaultSettings
    /\ tasks = <<>>
    /\ effectDue = FALSE
    /\ chart = NotRendered
    /\ isDragging = FALSE
    /\ dragType = Unset
    /\ dragStartRef = NoAnchor
    /\ listeners = <<>>
    /\ lastEmitted = <<>>
    /\ probe = NoProbe
    /\ loading = TRUE
    /\ error = Unset
    /\ isRefreshing = FALSE
    /\ notice = Unset
    /\ initPc = "start"
    /\ mirrorCalls = NoMirrorCalls
    /\ loads = <<>>
    /\ lastLoad = NoLoad
    /\ saves = 0

\* the answers to the query for a source board: the board, no board, a rejection
SourceFound(board) == [k |-> "found", board |-> board]

SourceNone == [k |-> "none"]

SourceRejects == [k |-> "rejects"]

\* the pass of getMirrorColumnMappings' loop over one mirror field: the mapping
\* it pushes, or none when the settings do not parse, name no source board or
\* field, or the source query rejects, finds no board or no such field
MirrorMappingOf(mirrorCol, boardId) ==
    LET parsed == JSONparse(IF Falsy(mirrorCol.settings_str)
                            THEN Json(JObj(<<>>)) ELSE mirrorCol.settings_str)
    IN  IF ~parsed.ok \/ GetThrows(parsed.v) THEN <<>>
        ELSE LET mirrorBoardId == Get(parsed.v, "mirrorBoardId")
                 mirrorColumnId == Get(parsed.v, "mirrorColumnId")
                 answer == IF mirrorBoardId.t = "string"
                              /\ mirrorBoardId.s \in DOMAIN env.sources
                           THEN env.sources[mirrorBoardId.s] ELSE SourceNone
             IN  IF ~(Truthy(mirrorBoardId) /\ Truthy(mirrorColumnId)) THEN <<>>
                 ELSE IF answer.k # "found" THEN <<>>
                 ELSE LET sourceColumn ==
                              Find(answer.board.columns,
                                   LAMBDA col : mirrorColumnId.t = "string"
                                                /\ col.id = mirrorColumnId.s)
                      IN  IF sourceColumn = <<>> THEN <<>>
                          ELSE << [sourceColumnId |-> mirrorColumnId.s,
                                   sourceColumnTitle |-> sourceColumn[1].title,
                                   sourceBoardId |-> mirrorBoardId.s,
                                   sourceBoardName |-> answer.board.name,
                                   mirrorColumnId |-> mirrorCol.id,
                                   mirrorColumnTitle |-> mirrorCol.title,
                                   targetBoardId |-> boardId] >>

\* whether the pass over one mirror field raises an error (which the loop
\* catches): JSON.parse, reading a key of null, or the source query
MirrorFieldThrows(mirrorCol) ==
    LET parsed == JSONparse(IF Falsy(mirrorCol.settings_str)
                            THEN Json(JObj(<<>>)) ELSE mirrorCol.settings_str)
    IN  \/ ~parsed.ok
        \/ GetThrows(parsed.v)
        \/ /\ Truthy(Get(parsed.v, "mirrorBoardId"))
           /\ Truthy(Get(parsed.v, "mirrorColumnId"))
           /\ Get(parsed.v, "mirrorBoardId").t = "string"
           /\ Get(parsed.v, "mirrorBoardId").s \in DOMAIN env.sources
           /\ env.sources[Get(parsed.v, "mirrorBoardId").s].k = "rejects"

\* getMirrorColumnMappings in which an error in the pass over one field ends
\* the whole call with no mapping
getMirrorColumnMappings_failureEndsBatch(boardId, ok) ==
    IF ~ok THEN <<>>
    ELSE LET columns == IF boardId \in DOMAIN env.columns
                        THEN env.columns[boardId] ELSE <<>>
             mirrorColumns == Find(columns, LAMBDA col : col.type \in {"mirror", "lookup"})
         IN  IF \E i \in 1..Len(mirrorColumns) : MirrorFieldThrows(mirrorColumns[i])
             THEN <<>>
             ELSE Flatten([i \in 1..Len(mirrorColumns) |->
                              MirrorMappingOf(mirrorColumns[i], boardId)])

\* getMirrorColumnMappings: ok tells whether the query for the board's fields
\* was answered; the source queries of the loop are awaited one after the
\* other and touch nothing but the list the call returns
getMirrorColumnMappings(boardId, ok) ==
    IF ~ok THEN <<>>
    ELSE LET columns == IF boardId \in DOMAIN env.columns
                        THEN env.columns[boardId] ELSE <<>>
             mirrorColumns == Find(columns, LAMBDA col : col.type \in {"mirror", "lookup"})
         IN  Flatten([i \in 1..Len(mirrorColumns) |->
                          MirrorMappingOf(mirrorColumns[i], boardId)])

\* initializeWidget run to its end with no other step in between: the stored
\* settings (env.savedSettings states every option) are merged in, the boards
\* and their mirror mappings are loaded
InitializeWidget ==
    /\ boards = <<>>
    /\ initPc = "start"
    /\ settings' = env.savedSettings
    /\ boards' = env.boards
    /\ mirrorMappings' = [id \in {env.boards[i].id : i \in 1..Len(env.boards)} |->
                              getMirrorColumnMappings(id, TRUE)]
    /\ effectDue' = TRUE
    /\ loading' = FALSE
    /\ error' = Unset
    /\ initPc' = "done"
    /\ UNCHANGED <<env, allItems, tasks, chart>>
    /\ UNCHANGED <<isRefreshing, notice, mirrorCalls, loads, lastLoad, saves>>
    /\ UNCHANGED dragVars

\* the board ids loadTasks asks for
SelectedBoardIds ==
    IF Len(settings.selectedBoards) > 0 THEN settings.selectedBoards
    ELSE [i \in 1..Len(boards) |-> boards[i].id]

\* the board ids in ascending order: the keys of `results` are integer-like,
\* and Object.entries lists such keys in ascending numeric order
BoardIds == <<"b1", "b2">>

\* getAllBoardItems: one entry per requested board, listed as Object.entries
\* lists the keys of the result
getAllBoardItems(ids) ==
    LET keys == SelectSeq(BoardIds, LAMBDA id : id \in SeqToSet(ids))
    IN  [i \in 1..Len(keys) |->
            [boardId |-> keys[i],
             items |-> IF keys[i] \in DOMAIN env.items THEN env.items[keys[i]] ELSE <<>>]]

\* the effect on [boards, settings]: loadTasks, when there are boards, run to
\* its end with no other step in between and every retrieval successful
LoadTasks ==
    /\ effectDue
    /\ Len(boards) > 0
    /\ effectDue' = FALSE
    /\ UNCHANGED <<env, boards, mirrorMappings, settings, chart>>
    /\ UNCHANGED asyncVars
    /\ UNCHANGED dragVars
    /\ allItems' = getAllBoardItems(SelectedBoardIds)
    /\ tasks' = processItemsToGanttTasks(getAllBoardItems(SelectedBoardIds), settings)

\* React renders GanttChart once the widget is initialized; the memoized
\* values are computed on the first render and when the tasks have changed
Render ==
    /\ ~loading
    /\ error = Unset
    /\ Len(boards) > 0
    /\ ~chart.rendered \/ chart.tasks # tasks
    /\ chart' = GanttChart(tasks, env.innerWidth)
    /\ UNCHANGED <<env, boards, allItems, mirrorMappings, settings, tasks, effectDue>>
    /\ UNCHANGED asyncVars
    /\ UNCHANGED dragVars

----------------------------------------------------------------------------
(* App and MondayService: the asynchronous steps *)

LoadFailedMessage == "Failed to load tasks. Please try again."

\* the running saveWidgetSettings and loadTasks calls a settings change may add to
MaxSaves == 1

MaxLoads == 2

\* f with key mapped to value
Put(f, key, value) ==
    [x \in (DOMAIN f) \cup {key} |-> IF x = key THEN value ELSE f[x]]

\* getBoardItems that lets the failure of the request reach its caller
getBoardItems_rejects(boardId, ok) ==
    IF ok /\ boardId \in DOMAIN env.items
    THEN [rejected |-> FALSE, items |-> env.items[boardId]]
    ELSE [rejected |-> ~ok, items |-> <<>>]

\* getBoardItems(boardId): the items of the board, or none when the request
\* fails (ok = FALSE) or the response holds no such board
getBoardItems(boardId, ok) ==
    IF ok /\ boardId \in DOMAIN env.items
    THEN [rejected |-> FALSE, items |-> env.items[boardId]]
    ELSE [rejected |-> FALSE, items |-> <<>>]

\* the mount effect calls initializeWidget, which runs up to its first await
InitializeWidgetCalled ==
    /\ initPc = "start"
    /\ loading' = TRUE
    /\ error' = Unset
    /\ initPc' = "settings"
    /\ UNCHANGED <<env, boards, allItems, mirrorMappings, settings, tasks, effectDue, chart>>
    /\ UNCHANGED <<isRefreshing, notice, mirrorCalls, loads, lastLoad, saves>>
    /\ UNCHANGED dragVars

\* initializeWidget goes on when loadWidgetSettings returns: setSettings
LoadWidgetSettingsReturns ==
    /\ initPc = "settings"
    /\ settings' = env.savedSettings
    /\ effectDue' = TRUE
    /\ initPc' = "boards"
    /\ UNCHANGED <<env, boards, allItems, mirrorMappings, tasks, chart>>
    /\ UNCHANGED <<loading, error, isRefreshing, notice, mirrorCalls, loads, lastLoad, saves>>
    /\ UNCHANGED dragVars

\* initializeWidget goes on when getBoards returns: setBoards,
\* dataProcessor.setBoards, and loadMirrorMappings starts one
\* getMirrorColumnMappings call per board
GetBoardsReturns ==
    /\ initPc = "boards"
    /\ boards' = env.boards
    /\ effectDue' = TRUE
    /\ IF env.boards = <<>>
       THEN /\ mirrorMappings' = <<>>
            /\ mirrorCalls' = NoMirrorCalls
            /\ loading' = FALSE
            /\ initPc' = "done"
       ELSE /\ mirrorCalls' = [pending |-> {b.id : b \in SeqToSet(env.boards)},
                               mappings |-> <<>>]
            /\ initPc' = "mirrors"
            /\ UNCHANGED <<mirrorMappings, loading>>
    /\ UNCHANGED <<env, allItems, settings, tasks, chart>>
    /\ UNCHANGED <<error, isRefreshing, notice, loads, lastLoad, saves>>
    /\ UNCHANGED dragVars

\* initializeWidget with setLoading(false) as the last statement of its try
\* block and a failed getMirrorColumnMappings that rejects: the run ends in
\* the catch of loadMirrorMappings' caller with loading still set
GetMirrorColumnMappingsReturns_noFinally(boardId, ok) ==
    /\ initPc = "mirrors"
    /\ boardId \in mirrorCalls.pending
    /\ LET got == Put(mirrorCalls.mappings, boardId,
                      getMirrorColumnMappings(boardId, ok))
       IN  IF ~ok
           THEN /\ mirrorCalls' = NoMirrorCalls
                /\ initPc' = "done"
                /\ UNCHANGED <<mirrorMappings, loading>>
           ELSE IF mirrorCalls.pending = {boardId}
           THEN /\ mirrorMappings' = got
                /\ mirrorCalls' = NoMirrorCalls
                /\ loading' = FALSE
                /\ initPc' = "done"
           ELSE /\ mirrorCalls' = [pending |-> mirrorCalls.pending \ {boardId},
                                   mappings |-> got]
                /\ UNCHANGED <<mirrorMappings, loading, initPc>>
    /\ UNCHANGED <<env, boards, allItems, settings, tasks, effectDue, chart>>
    /\ UNCHANGED <<error, isRefreshing, notice, loads, lastLoad, saves>>
    /\ UNCHANGED dragVars

\* getMirrorColumnMappings(boardId) returns (an empty list when its request
\* failed); with the last one loadMirrorMappings stores the mappings and
\* initializeWidget ends with setLoading(false)
GetMirrorColumnMappingsReturns(boardId, ok) ==
    /\ initPc = "mirrors"
    /\ boardId \in mirrorCalls.pending
    /\ LET got == Put(mirrorCalls.mappings, boardId,
                      getMirrorColumnMappings(boardId, ok))
       IN  IF mirrorCalls.pending = {boardId}
           THEN /\ mirrorMappings' = got
                /\ mirrorCalls' = NoMirrorCalls
                /\ loading' = FALSE
                /\ initPc' = "done"
           ELSE /\ mirrorCalls' = [pending |-> mirrorCalls.pending \ {boardId},
                                   mappings |-> got]
                /\ UNCHANGED <<mirrorMappings, loading, initPc>>
    /\ UNCHANGED <<env, boards, allItems, settings, tasks, effectDue, chart>>
    /\ UNCHANGED <<error, isRefreshing, notice, loads, lastLoad, saves>>
    /\ UNCHANGED dragVars

\* loadTasks is called and runs up to its await: with no board to ask for it
\* sets no tasks and returns, otherwise getAllBoardItems starts one
\* getBoardItems call per board id
LoadTasksCalled(refresh) ==
    IF SelectedBoardIds = <<>>
    THEN /\ tasks' = <<>>
         /\ notice' = IF refresh THEN "success" ELSE notice
         /\ UNCHANGED <<loads, isRefreshing>>
    ELSE /\ loads' = Append(loads,
                        [ids |-> SelectedBoardIds, stg |-> settings, refresh |-> refresh,
                         pending |-> SeqToSet(SelectedBoardIds), results |-> <<>>,
                         failed |-> {}, order |-> <<>>])
         /\ isRefreshing' = (isRefreshing \/ refresh)
         /\ UNCHANGED <<tasks, notice>>

\* the effect on [boards, settings] runs
EffectRuns ==
    /\ effectDue
    /\ effectDue' = FALSE
    /\ IF Len(boards) > 0 THEN LoadTasksCalled(FALSE)
       ELSE UNCHANGED <<tasks, notice, loads, isRefreshing>>
    /\ UNCHANGED <<env, boards, allItems, mirrorMappings, settings, chart>>
    /\ UNCHANGED <<loading, error, initPc, mirrorCalls, lastLoad, saves>>
    /\ UNCHANGED dragVars

\* handleRefresh, from the Refresh button of the chart view
HandleRefresh ==
    /\ ~loading
    /\ error = Unset
    /\ ~isRefreshing
    /\ LoadTasksCalled(TRUE)
    /\ UNCHANGED <<env, boards, allItems, mirrorMappings, settings, effectDue, chart>>
    /\ UNCHANGED <<loading, error, initPc, mirrorCalls, lastLoad, saves>>
    /\ UNCHANGED dragVars

\* loads without its k-th call
Without(k) == SubSeq(loads, 1, k - 1) \o SubSeq(loads, k + 1, Len(loads))

\* the getBoardItems call for boardId of the k-th running loadTasks returns.
\* A rejection rejects Promise.all at once and loadTasks catches it; with the
\* last result getAllBoardItems returns, loadTasks stores the items, derives
\* the tasks and sets them; handleRefresh then shows its notice
GetBoardItemsReturns(k, boardId, ok) ==
    /\ k \in 1..Len(loads)
    /\ boardId \in loads[k].pending
    /\ LET call == loads[k]
           result == getBoardItems(boardId, ok)
           results == Put(call.results, boardId, result.items)
           failed == IF ok THEN call.failed ELSE call.failed \cup {boardId}
           order == Append(call.order, boardId)
           keys == SelectSeq(BoardIds, LAMBDA id : id \in DOMAIN results)
           returned == [i \in 1..Len(keys) |->
                            [boardId |-> keys[i], items |-> results[keys[i]]]]
       IN  IF result.rejected
           THEN /\ error' = LoadFailedMessage
                /\ loads' = Without(k)
                /\ notice' = IF call.refresh THEN "success" ELSE notice
                /\ isRefreshing' = (isRefreshing /\ ~call.refresh)
                /\ UNCHANGED <<allItems, tasks, lastLoad>>
           ELSE IF call.pending = {boardId}
           THEN /\ allItems' = returned
                /\ tasks' = processItemsToGanttTasks(returned, call.stg)
                /\ lastLoad' = [done |-> TRUE, ids |-> call.ids, failed |-> failed,
                                order |-> order, refresh |-> call.refresh]
                /\ loads' = Without(k)
                /\ notice' = IF call.refresh THEN "success" ELSE notice
                /\ isRefreshing' = (isRefreshing /\ ~call.refresh)
                /\ UNCHANGED error
           ELSE /\ loads' = [loads EXCEPT ![k] =
                                [call EXCEPT !.pending = call.pending \ {boardId},
                                             !.results = results,
                                             !.failed = failed,
                                             !.order = order]]
                /\ UNCHANGED <<allItems, tasks, lastLoad, notice, isRefreshing, error>>
    /\ UNCHANGED <<env, boards, mirrorMappings, settings, effectDue, chart>>
    /\ UNCHANGED <<loading, initPc, mirrorCalls, saves>>
    /\ UNCHANGED dragVars

\* handleSettingsChange, from the settings panel of the chart view, runs up to
\* its await: setSettings with the panel's new object re-arms the effect on
\* [boards, settings], and saveWidgetSettings starts
HandleSettingsChange(newSettings) ==
    /\ ~loading
    /\ error = Unset
    /\ saves < MaxSaves
    /\ Len(loads) < MaxLoads
    /\ settings' = newSettings
    /\ effectDue' = TRUE
    /\ saves' = saves + 1
    /\ UNCHANGED <<env, boards, allItems, mirrorMappings, tasks, chart>>
    /\ UNCHANGED <<loading, error, isRefreshing, notice, initPc, mirrorCalls, loads, lastLoad>>
    /\ UNCHANGED dragVars

\* saveWidgetSettings returns (it logs a failure and returns all the same) and
\* handleSettingsChange shows its notice
SaveWidgetSettingsReturns ==
    /\ saves > 0
    /\ saves' = saves - 1
    /\ notice' = "success"
    /\ UNCHANGED <<env, boards, allItems, mirrorMappings, settings, tasks, effectDue, chart>>
    /\ UNCHANGED <<loading, error, isRefreshing, initPc, mirrorCalls, loads, lastLoad>>
    /\ UNCHANGED dragVars

----------------------------------------------------------------------------
(* Surroundings the checks draw from *)

MaxSubitems == 1

MaxDay == 2

FirstDay == 60

\* 2024-03-01 and the days after it
Days == {Date(FirstDay + k) : k \in 0..MaxDay}

ItemIds == <<"i1", "i2", "i3", "i4", "i5", "i6", "i7", "i8", "i9">>

Alpha == <<101, 12, 16, 8, 1>>

Beta == <<102, 5, 20, 1>>

NoGroup == [present |-> FALSE, title |-> <<>>, color |-> Unset]

GroupOf(title, color) == [present |-> TRUE, title |-> title, color |-> color]

Board1 == [id |-> "b1", name |-> "Board 1"]

CV(id, title, type, value, text) ==
    [id |-> id, title |-> title, type |-> type, value |-> value, text |-> text]

Item(id, name, cvs, group, subitems) ==
    [id |-> id, name |-> name, column_values |-> cvs, group |-> group,
     subitems |-> subitems]

JDateOrNull(d) == IF d = NULL THEN JNull ELSE JIsoDate(d.day)

\* the payloads of a timeline field
TimelinePayloads ==
    {NoValue, NotJson, Json(JNull), Json(JObj(<<>>))}
    \cup {Json(JObj([from |-> JDateOrNull(f), to |-> JDateOrNull(t)])) :
            f \in {NULL, Date(FirstDay)}, t \in {NULL, Date(FirstDay + 1)}}

\* the timeline or date fields of an item: none, a timeline field, a date field
TimelineFields ==
    {<<>>}
    \cup {<<CV("timeline", "Timeline", "timeline", v, <<>>)>> : v \in TimelinePayloads}
    \cup {<<CV("due", "Due", "date", v, <<>>)>> :
            v \in {NotJson, Json(JObj(<<>>)), Json(JObj([date |-> JIsoDate(FirstDay)]))}}

\* the payloads of a numeric field
NumericPayloads ==
    {NoValue, NotJson, Json(JNull), Json(JNum(0 - 20)), Json(JNum(50)), Json(JNum(150)),
     Json(JStr("abc")), Json(JStr("250")), Json(JObj(<<>>)), Json(JArr(<<>>)),
     Json(JArr(<<JNum(50), JNum(50)>>))}

\* the progress fields of an item: none, or a numeric field with a progress title
ProgressFields ==
    {<<>>}
    \cup {<<CV("progress", "% Complete", "numeric", v, <<>>)>> : v \in NumericPayloads}

\* the fields of the items of the derivation checks: every timeline field with
\* one progress field, and one timeline field with every progress field
DeriveFields ==
    {t \o <<CV("progress", "Progress", "numeric", Json(JNum(50)), <<>>)>> :
        t \in TimelineFields}
    \cup {<<CV("timeline", "Timeline", "timeline",
               Json(JObj([from |-> JIsoDate(FirstDay), to |-> JNull])), <<>>)>> \o p :
            p \in ProgressFields}

\* the sequences over S of length n
SeqsOfLen(S, n) == [1..n -> S]

\* the sequences over S of length at most n
SeqsUpTo(S, n) == UNION {SeqsOfLen(S, k) : k \in 0..n}

\* the fields of the subitems of the derivation checks
DeriveSubFields ==
    {<<CV("timeline", "Timeline", "timeline", Json(JObj([from |-> f, to |-> t])), <<>>),
       CV("progress", "Progress", "numeric", Json(p), <<>>)>> :
        f \in {JNull, JIsoDate(FirstDay)}, t \in {JNull}, p \in {JNum(150), JStr("abc")}}

\* one root item with up to MaxSubitems subitems
DeriveItemLists ==
    {<<Item(ItemIds[1], Alpha, r, NoGroup,
            [i \in 1..Len(subs) |-> Item(ItemIds[1 + i], Beta, subs[i], NoGroup, <<>>)])>> :
        r \in DeriveFields, subs \in SeqsUpTo(DeriveSubFields, MaxSubitems)}

DeriveSettings ==
    {[DefaultSettings EXCEPT !.showSubitems = sub, !.timelineColumn = col] :
        sub \in BOOLEAN, col \in {Unset, "timeline", "nofield"}}

Surroundings(items, stg, innerWidth) ==
    [items |-> [b1 |-> items], boards |-> <<Board1>>,
     columns |-> [b1 |-> <<>>], sources |-> <<>>,
     savedSettings |-> stg, innerWidth |-> innerWidth]

DeriveEnvs ==
    {Surroundings(items, stg, 1200) : items \in DeriveItemLists, stg \in DeriveSettings}

\* the largest number of root items of a sorting check
MaxSortItems == 2

\* the fields of the items of the sorting checks: a timeline with both, only
\* the end or only the start, and possibly a "score" field
SortTimelines ==
    {<<CV("timeline", "Timeline", "timeline",
          Json(JObj([from |-> JDateOrNull(ft[1]), to |-> JDateOrNull(ft[2])])), <<>>)>> :
        ft \in {<<Date(FirstDay), Date(FirstDay + 1)>>, <<NULL, Date(FirstDay + 1)>>,
                <<Date(FirstDay + 1), NULL>>}}

ScoreFields ==
    {<<CV("score", "Score", "numeric", v, <<>>)>> :
        v \in {Json(JNum(5)), Json(JNum(10)), NotJson, Json(JStr("abc"))}}
    \cup {<<CV("score", "Score", "text", Json(JStr("abc")), Beta)>>}

\* name and fields of the items of the sorting checks
SortKinds ==
    {[name |-> n, fields |-> t] : n \in {Alpha, Beta}, t \in SortTimelines}
    \cup {[name |-> Alpha, fields |-> t \o sc] :
            t \in {<<CV("timeline", "Timeline", "timeline",
                       Json(JObj([from |-> JIsoDate(FirstDay), to |-> JIsoDate(FirstDay)])),
                       <<>>)>>},
            sc \in ScoreFields}

SortItemLists ==
    {[i \in 1..Len(ks) |-> Item(ItemIds[i], ks[i].name, ks[i].fields, NoGroup, <<>>)] :
        ks \in UNION {SeqsOfLen(SortKinds, n) : n \in 2..MaxSortItems}}

SortKeys == {"name", "start_date", "end_date", "score"}

SortSettings ==
    {[DefaultSettings EXCEPT !.sortByColumn = key, !.sortDirection = dir] :
        key \in SortKeys, dir \in {"asc", "desc"}}

SortEnvs ==
    {Surroundings(items, stg, 1200) : items \in SortItemLists, stg \in SortSettings}

\* the largest number of subitems of the first root item of a chart check
MaxChildren == 2

Gamma == <<107, 1, 13, 13, 1>>

GroupA == GroupOf(<<116, 15, 0, 4, 15>>, "#579bfc")

TimelineOf(from, to) ==
    <<CV("timeline", "Timeline", "timeline",
         Json(JObj([from |-> JDateOrNull(from), to |-> JDateOrNull(to)])), <<>>)>>

\* dates and group of the root items of the chart checks: a same-day task, a
\* task of MaxDay + 1 days, a task whose end precedes its start, and a task
\* with a start only, later than every other date
ChartRootKinds ==
    {[fields |-> TimelineOf(Date(FirstDay), Date(FirstDay)), group |-> NoGroup],
     [fields |-> TimelineOf(Date(FirstDay), Date(FirstDay + MaxDay)), group |-> GroupA],
     [fields |-> TimelineOf(Date(FirstDay + MaxDay), Date(FirstDay)), group |-> GroupA],
     [fields |-> TimelineOf(Date(FirstDay + MaxDay + 1), NULL), group |-> GroupA]}

\* name and dates of the subitems of the chart checks
ChartChildKinds ==
    {[name |-> Alpha, fields |-> TimelineOf(Date(FirstDay), Date(FirstDay + 1))],
     [name |-> Gamma, fields |-> TimelineOf(Date(FirstDay), Date(FirstDay + 1))],
     [name |-> Alpha, fields |-> TimelineOf(Date(FirstDay + 1), NULL)]}

\* a root item named Beta with up to MaxChildren subitems, then possibly a
\* second root item named Alpha
ChartItemLists ==
    {<<Item(ItemIds[1], Beta, r.fields, r.group,
            [i \in 1..Len(cs) |->
                Item(ItemIds[2 + i], cs[i].name, cs[i].fields, NoGroup, <<>>)])>>
        \o more :
        r \in ChartRootKinds,
        cs \in SeqsUpTo(ChartChildKinds, MaxChildren),
        more \in {<<>>} \cup {<<Item(ItemIds[2], Alpha, k.fields, k.group, <<>>)>> :
                                k \in ChartRootKinds}}

ChartSettings ==
    {DefaultSettings,
     [DefaultSettings EXCEPT !.sortByColumn = "name"],
     [DefaultSettings EXCEPT !.sortByColumn = "name", !.sortDirection = "desc"]}

InnerWidths == {1000, 1400}

ChartEnvs ==
    {Surroundings(items, stg, w) :
        items \in ChartItemLists, stg \in ChartSettings, w \in InnerWidths}

\* the dates of the dragged task: a same-day task, a task of two days, a task
\* of MaxDay + 1 days and a task whose end precedes its start
DragDates ==
    {<<Date(FirstDay), Date(FirstDay)>>,
     <<Date(FirstDay), Date(FirstDay + 1)>>,
     <<Date(FirstDay), Date(FirstDay + MaxDay)>>,
     <<Date(FirstDay + MaxDay), Date(FirstDay)>>}

\* the dragged item: the same-day task alone, the others with an item 30 days
\* long that narrows the days
DragItemLists ==
    {<<Item(ItemIds[1], Alpha, TimelineOf(d[1], d[2]), NoGroup, <<>>)>>
        \o (IF d[1] = d[2] THEN <<>>
            ELSE <<Item(ItemIds[2], Beta,
                        TimelineOf(Date(FirstDay), Date(FirstDay + 30)), NoGroup, <<>>)>>) :
        d \in DragDates}

DragEnvs == {Surroundings(items, DefaultSettings, 1000) : items \in DragItemLists}

Board2 == [id |-> "b2", name |-> "Board 2"]

\* a field of a board
Column(id, title, type, settings_str) ==
    [id |-> id, title |-> title, type |-> type, settings_str |-> settings_str]

\* a mirror field whose settings name a source board and a source field
MirrorColumn(id, sourceBoardId, sourceColumnId) ==
    Column(id, "Mirror", "mirror",
           Json(JObj([mirrorBoardId |-> JStr(sourceBoardId),
                      mirrorColumnId |-> JStr(sourceColumnId)])))

\* a source board with a field "status"
SourceBoard(board) ==
    SourceFound([id |-> board.id, name |-> board.name,
                 columns |-> <<[id |-> "status", title |-> "Status"]>>])

\* two boards with one item each, the second with a mirror field; every board
\* is asked for, or the second alone, or the second before the first
AppEnvs ==
    {[items |-> [b1 |-> <<Item(ItemIds[1], Alpha,
                               TimelineOf(Date(FirstDay), Date(FirstDay + 1)),
                               NoGroup, <<>>)>>,
                 b2 |-> <<Item(ItemIds[2], Beta,
                               TimelineOf(Date(FirstDay), Date(FirstDay))
                                 \o <<CV("mirror1", "Mirror", "mirror",
                                         Json(JStr("abc")), Gamma)>>,
                               NoGroup, <<>>)>>],
      boards |-> <<Board1, Board2>>,
      columns |-> [b1 |-> <<>>, b2 |-> <<MirrorColumn("mirror1", "b1", "status")>>],
      sources |-> [b1 |-> SourceBoard(Board1)],
      savedSettings |-> [DefaultSettings EXCEPT !.selectedBoards = sel],
      innerWidth |-> 1200] :
        sel \in {<<>>, <<"b2">>, <<"b2", "b1">>}}

\* the surroundings of the checks of overlapping loadTasks calls: two boards
\* of one item each, the second with a mirror field, all boards selected at
\* first
RaceEnvs ==
    {[items |-> [b1 |-> <<Item(ItemIds[1], Alpha,
                               TimelineOf(Date(FirstDay), Date(FirstDay + 1)),
                               NoGroup, <<>>)>>,
                 b2 |-> <<Item(ItemIds[2], Beta,
                               TimelineOf(Date(FirstDay), Date(FirstDay)),
                               NoGroup, <<>>)>>],
      boards |-> <<Board1, Board2>>,
      columns |-> [b1 |-> <<>>, b2 |-> <<MirrorColumn("mirror1", "b1", "status")>>],
      sources |-> [b1 |-> SourceBoard(Board1)],
      savedSettings |-> DefaultSettings,
      innerWidth |-> 1200]}

\* the surroundings of the checks of the busy flags: one board of one item,
\* with a mirror field of its own "status"
SettleEnvs ==
    {[items |-> [b1 |-> <<Item(ItemIds[1], Alpha,
                               TimelineOf(Date(FirstDay), Date(FirstDay + 1)),
                               NoGroup, <<>>)>>],
      boards |-> <<Board1>>,
      columns |-> [b1 |-> <<MirrorColumn("mirror1", "b1", "status")>>],
      sources |-> [b1 |-> SourceBoard(Board1)],
      savedSettings |-> DefaultSettings,
      innerWidth |-> 1200]}

\* the settings the panel hands to handleSettingsChange: one board selected,
\* or the other
PanelSettings ==
    {[DefaultSettings EXCEPT !.selectedBoards = sel] : sel \in {<<"b1">>, <<"b2">>}}

Red == "#e2445c"

\* dates and group of the root items of the grouping checks: as in the chart
\* checks, and a task in a group named "constructor"
GroupRootKinds ==
    {[fields |-> TimelineOf(Date(FirstDay), Date(FirstDay)), group |-> NoGroup],
     [fields |-> TimelineOf(Date(FirstDay), Date(FirstDay + MaxDay)), group |-> GroupA],
     [fields |-> TimelineOf(Date(FirstDay + MaxDay + 1), NULL), group |-> GroupA],
     [fields |-> TimelineOf(Date(FirstDay), Date(FirstDay + 1)),
      group |-> GroupOf(Constructor, Red)]}

\* a root item named Beta with up to MaxChildren subitems, then possibly a
\* second root item named Alpha
GroupItemLists ==
    {<<Item(ItemIds[1], Beta, r.fields, r.group,
            [i \in 1..Len(cs) |->
                Item(ItemIds[2 + i], cs[i].name, cs[i].fields, NoGroup, <<>>)])>>
        \o more :
        r \in GroupRootKinds,
        cs \in SeqsUpTo(ChartChildKinds, MaxChildren),
        more \in {<<>>} \cup {<<Item(ItemIds[2], Alpha, k.fields, k.group, <<>>)>> :
                                k \in GroupRootKinds}}

GroupEnvs ==
    {Surroundings(items, stg, 1000) : items \in GroupItemLists, stg \in ChartSettings}

Delta == <<104, 15, 14, 5>>

\* the fields of the items of the timeline checks: none; a text field, then a
\* date field, then a timeline field; a timeline field that gives nothing,
\* then a date field; a creation_log field, then a timeline field
ExtractTimelineFields ==
    {<<>>,
     <<CV("note", "Note", "text", Json(JObj([date |-> JIsoDate(FirstDay + 2)])), Gamma),
       CV("due", "Due", "date", Json(JObj([date |-> JIsoDate(FirstDay)])), <<>>)>>
        \o TimelineOf(Date(FirstDay + 1), Date(FirstDay + 2)),
     <<CV("created", "Created", "creation_log",
          Json(JObj([date |-> JIsoDate(FirstDay)])), <<>>)>>
        \o TimelineOf(Date(FirstDay + 1), Date(FirstDay + 2))}
    \cup {<<CV("timeline", "Timeline", "timeline", v, <<>>),
             CV("due", "Due", "date", Json(JObj([date |-> JIsoDate(FirstDay)])), <<>>)>> :
            v \in {NoValue, NotJson, Json(JNull), Json(JNum(50)),
                   Json(JObj([from |-> JIsoDate(FirstDay), to |-> JNull])),
                   Json(JObj([from |-> JNull, to |-> JIsoDate(FirstDay + 1)])),
                   Json(JObj([from |-> JIsoDate(FirstDay + 1), to |-> JIsoDate(FirstDay)])),
                   Json(JObj([from |-> JStr("soon"), to |-> JIsoDate(FirstDay)]))}}
    \cup {<<CV("due", "Due", "date", v, <<>>)>> \o TimelineOf(Date(FirstDay), Date(FirstDay + 1)) :
            v \in {NoValue, NotJson, Json(JNull), Json(JObj([date |-> JNull])),
                   Json(JObj([date |-> JStr("soon")]))}}

\* the payloads of a mirror field: none, two texts that are not JSON (one of
\* them the display text), null, an object without and with a color
MirrorPayloads ==
    {NoValue, NotJsonText(Gamma), NotJsonText(Delta), Json(JNull), Json(JObj(<<>>)),
     Json(JObj([color |-> JStr(Red)]))}

\* the field "m1" of the items of the mirror checks: absent, or of one of four
\* types, with or without a display text
ExtractMirrorFields ==
    {<<>>}
    \cup {<<CV("m1", "Mirror", type, v, text)>> :
            type \in {"mirror", "status", "dropdown", "color"},
            v \in MirrorPayloads, text \in {<<>>, Gamma}}

\* the mirror fields of the first board: none, "m1", "m1" after a field the
\* item does not have
ExtractMappings ==
    {<<>>, <<MirrorColumn("m1", "b2", "status")>>,
     <<MirrorColumn("m2", "b2", "status"), MirrorColumn("m1", "b2", "status")>>}

\* one item (with the same fields on its subitem) under every timeline option,
\* and with a valid timeline under every mirror field, mapping list, group
\* and color/group option
ExtractEnvs ==
    {[items |-> [b1 |-> <<Item(ItemIds[1], Alpha, f, GroupA,
                               <<Item(ItemIds[2], Beta, f, NoGroup, <<>>)>>)>>],
      boards |-> <<Board1>>,
      columns |-> [b1 |-> <<>>],
      sources |-> <<>>,
      savedSettings |-> [DefaultSettings EXCEPT !.timelineColumn = col],
      innerWidth |-> 1200] :
        f \in ExtractTimelineFields, col \in {Unset, "timeline", "due", "note", "nofield"}}
    \cup
    {[items |-> [b1 |-> <<Item(ItemIds[1], Alpha,
                               TimelineOf(Date(FirstDay), Date(FirstDay + 1)) \o f, g,
                               <<Item(ItemIds[2], Beta,
                                      TimelineOf(Date(FirstDay), Date(FirstDay)) \o f,
                                      NoGroup, <<>>)>>)>>],
      boards |-> <<Board1>>,
      columns |-> [b1 |-> ms],
      sources |-> [b2 |-> SourceBoard(Board2)],
      savedSettings |-> [DefaultSettings EXCEPT !.colorByColumn = by, !.groupByColumn = by],
      innerWidth |-> 1200] :
        f \in ExtractMirrorFields, ms \in ExtractMappings, g \in {NoGroup, GroupA},
        by \in {Unset, "m1", "nofield"}}

\* the length in days of the long task of the window checks
LongSpan == 60

\* the fields of the items of the window checks: a same-day task, a task of
\* MaxDay + 1 days, a long task, a task whose end precedes its start, a task
\* with a start only, and a task whose start is a text that is not a date
WindowFields ==
    {TimelineOf(Date(FirstDay), Date(FirstDay)),
     TimelineOf(Date(FirstDay + 1), Date(FirstDay + MaxDay)),
     TimelineOf(Date(FirstDay), Date(FirstDay + LongSpan)),
     TimelineOf(Date(FirstDay + MaxDay), Date(FirstDay)),
     TimelineOf(Date(FirstDay + MaxDay + 1), NULL),
     <<CV("timeline", "Timeline", "timeline",
          Json(JObj([from |-> JStr("soon"), to |-> JIsoDate(FirstDay)])), <<>>)>>}

\* window.innerWidth at the render
WindowWidths == {0, 1000, 1150, 1400, 2500}

\* one item, or two, under every viewport width
WindowEnvs ==
    {Surroundings(<<Item(ItemIds[1], Alpha, f, NoGroup, <<>>)>> \o more,
                  DefaultSettings, w) :
        f \in WindowFields,
        more \in {<<>>} \cup {<<Item(ItemIds[2], Beta, g, NoGroup, <<>>)>> : g \in WindowFields},
        w \in WindowWidths}

\* the largest number of fields of the board of the mirror checks
MaxMirrorColumns == 2

Board3 == [id |-> "b3", name |-> "Board 3"]

\* type and settings of the fields of the mirror checks: a text field; mirror
\* fields without settings, with settings that are not JSON, that are null,
\* that name a source board only; mirror and lookup fields naming "status" of
\* the second board, a field the second board has not, "status" of the third
MirrorColumnKinds ==
    {[type |-> "text", settings_str |-> NoValue],
     [type |-> "mirror", settings_str |-> NoValue],
     [type |-> "mirror", settings_str |-> NotJson],
     [type |-> "mirror", settings_str |-> Json(JNull)],
     [type |-> "mirror", settings_str |-> Json(JObj([mirrorBoardId |-> JStr("b2")]))]}
    \cup {[type |-> type,
           settings_str |-> Json(JObj([mirrorBoardId |-> JStr(b), mirrorColumnId |-> JStr(c)]))] :
            type \in {"mirror", "lookup"},
            b \in {"b2", "b3"}, c \in {"status", "nofield"}}

ColumnIds == <<"c1", "c2", "c3", "c4">>

\* the answers to the source queries: the second board is found; the third
\* is found, is not, or its query rejects
MirrorSources ==
    {[b2 |-> SourceBoard(Board2), b3 |-> a] :
        a \in {SourceBoard(Board3), SourceNone, SourceRejects}}

\* one board with up to MaxMirrorColumns fields and one item
MirrorEnvs ==
    {[items |-> [b1 |-> <<Item(ItemIds[1], Alpha,
                               TimelineOf(Date(FirstDay), Date(FirstDay + 1)),
                               NoGroup, <<>>)>>],
      boards |-> <<Board1>>,
      columns |-> [b1 |-> [i \in 1..Len(kinds) |->
                             Column(ColumnIds[i], "Mirror", kinds[i].type,
                                    kinds[i].settings_str)]],
      sources |-> src,
      savedSettings |-> DefaultSettings,
      innerWidth |-> 1200] :
        kinds \in SeqsUpTo(MirrorColumnKinds, MaxMirrorColumns), src \in MirrorSources}

\* name, dates and subitems of the root items of the order checks: an item
\* with a subitem that sorts before it by name and by start, an item without
\* subitems, an item with a score, an item without dates
OrderRootKinds ==
    {[name |-> Beta, fields |-> TimelineOf(Date(FirstDay + 1), Date(FirstDay + 1)),
      subs |-> <<[name |-> Alpha, fields |-> TimelineOf(Date(FirstDay), Date(FirstDay))]>>],
     [name |-> Alpha, fields |-> TimelineOf(Date(FirstDay), Date(FirstDay + 1)),
      subs |-> <<>>],
     [name |-> Gamma,
      fields |-> TimelineOf(Date(FirstDay), NULL)
                   \o <<CV("score", "Score", "numeric", Json(JNum(5)), <<>>)>>,
      subs |-> <<[name |-> Beta, fields |-> <<>>],
                 [name |-> Alpha, fields |-> TimelineOf(NULL, Date(FirstDay))]>>],
     [name |-> Alpha, fields |-> <<>>,
      subs |-> <<[name |-> Alpha, fields |-> TimelineOf(Date(FirstDay), Date(FirstDay))]>>]}

\* the items of a board for a list of kinds; ids from the given place on
RECURSIVE OrderItems(_, _)
OrderItems(kinds, from) ==
    IF kinds = <<>> THEN <<>>
    ELSE LET k == Head(kinds)
         IN  <<Item(ItemIds[from], k.name, k.fields, NoGroup,
                    [i \in 1..Len(k.subs) |->
                        Item(ItemIds[from + i], k.subs[i].name, k.subs[i].fields,
                             NoGroup, <<>>)])>>
             \o OrderItems(Tail(kinds), from + 3)

\* every sort key in both directions, the second board asked for first
OrderSettings ==
    {[DefaultSettings EXCEPT !.sortByColumn = key, !.sortDirection = dir,
                             !.showSubitems = sub, !.selectedBoards = <<"b2", "b1">>] :
        key \in {Unset, "nofield", "name", "start_date", "score"},
        dir \in {"asc", "desc"}, sub \in BOOLEAN}

\* two boards, the first with one or two root items, the second with one
OrderEnvs ==
    {[items |-> [b1 |-> OrderItems(ks, 1), b2 |-> OrderItems(<<k2>>, 7)],
      boards |-> <<Board1, Board2>>,
      columns |-> [b1 |-> <<>>, b2 |-> <<>>],
      sources |-> <<>>,
      savedSettings |-> stg,
      innerWidth |-> 1200] :
        ks \in SeqsOfLen(OrderRootKinds, 1) \cup SeqsOfLen(OrderRootKinds, 2),
        k2 \in {k \in OrderRootKinds : k.name # Alpha}, stg \in OrderSettings}

----------------------------------------------------------------------------
(* Specifications *)

NextPipeline == InitializeWidget \/ LoadTasks \/ Render

InitDerive == \E e \in DeriveEnvs : Constructed(e)

SpecDerive == InitDerive /\ [][NextPipeline]_vars

InitSort == \E e \in SortEnvs : Constructed(e)

SpecSort == InitSort /\ [][NextPipeline]_vars

InitExtract == \E e \in ExtractEnvs : Constructed(e)

SpecExtract == InitExtract /\ [][NextPipeline]_vars

InitWindow == \E e \in WindowEnvs : Constructed(e)

SpecWindow == InitWindow /\ [][NextPipeline]_vars

InitMirror == \E e \in MirrorEnvs : Constructed(e)

SpecMirror == InitMirror /\ [][NextPipeline]_vars

InitOrder == \E e \in OrderEnvs : Constructed(e)

SpecOrder == InitOrder /\ [][NextPipeline]_vars

InitChart == \E e \in ChartEnvs : Constructed(e)

SpecChart == InitChart /\ [][NextPipeline]_vars

InitGroups == \E e \in GroupEnvs : Constructed(e)

SpecGroups == InitGroups /\ [][NextPipeline]_vars

NextDrag ==
    \/ InitializeWidget
    \/ LoadTasks
    \/ Render
    \/ \E clientX \in PointerXs, type \in DragTypes : MouseDown(clientX, type)
    \/ \E clientX \in PointerXs : MouseMove(clientX)
    \/ MouseUp

InitDrag == \E e \in DragEnvs : Constructed(e)

SpecDrag == InitDrag /\ [][NextDrag]_vars

NextApp ==
    \/ InitializeWidgetCalled
    \/ LoadWidgetSettingsReturns
    \/ GetBoardsReturns
    \/ \E boardId \in SeqToSet(BoardIds), ok \in BOOLEAN :
          GetMirrorColumnMappingsReturns(boardId, ok)
    \/ EffectRuns
    \/ HandleRefresh
    \/ \E k \in 1..Len(loads), boardId \in SeqToSet(BoardIds), ok \in BOOLEAN :
          GetBoardItemsReturns(k, boardId, ok)
    \/ Render

InitApp == \E e \in AppEnvs : Constructed(e)

SpecApp == InitApp /\ [][NextApp]_vars

NextRace ==
    \/ InitializeWidgetCalled
    \/ LoadWidgetSettingsReturns
    \/ GetBoardsReturns
    \/ \E boardId \in SeqToSet(BoardIds), ok \in BOOLEAN :
          GetMirrorColumnMappingsReturns(boardId, ok)
    \/ EffectRuns
    \/ HandleRefresh
    \/ \E newSettings \in PanelSettings : HandleSettingsChange(newSettings)
    \/ SaveWidgetSettingsReturns
    \/ \E k \in 1..Len(loads), boardId \in SeqToSet(BoardIds), ok \in BOOLEAN :
          GetBoardItemsReturns(k, boardId, ok)
    \/ Render

InitRace == \E e \in RaceEnvs : Constructed(e)

SpecRace == InitRace /\ [][NextRace]_vars

\* a collaborator call of initializeWidget returns, or a getBoardItems call of
\* the oldest running loadTasks
Settle ==
    \/ InitializeWidgetCalled
    \/ LoadWidgetSettingsReturns
    \/ GetBoardsReturns
    \/ \E boardId \in SeqToSet(BoardIds), ok \in BOOLEAN :
          GetMirrorColumnMappingsReturns(boardId, ok)
    \/ \E boardId \in SeqToSet(BoardIds), ok \in BOOLEAN :
          GetBoardItemsReturns(1, boardId, ok)

\* the widget when the calls that can return do not wait for ever
InitSettles == \E e \in SettleEnvs : Constructed(e)

SpecSettles == InitSettles /\ [][NextRace]_vars /\ WF_vars(Settle)

----------------------------------------------------------------------------
(* Claims about the derivation *)

\* the items convertItemToGanttTask was called on by the last loadTasks: the
\* root items of the known boards and, when subitems are shown, the subitems of
\* the root items that gave a task
ProcessedItems ==
    LET known == {e \in SeqToSet(allItems) : \E b \in SeqToSet(boards) : b.id = e.boardId}
        roots == UNION {SeqToSet(e.items) : e \in known}
        kept == {r \in roots : \E t \in SeqToSet(tasks) : t.id = r.id}
    IN  roots \cup (IF settings.showSubitems
                    THEN UNION {SeqToSet(r.subitems) : r \in kept} ELSE {})

\* C1: an item whose extracted range has both endpoints null gives no task; an
\* item with exactly one null endpoint gives a task that keeps the other
\* endpoint as extracted and keeps the null one null.
C1_EndpointsKept ==
    \A item \in ProcessedItems :
        LET range == extractTimelineData(item, settings.timelineColumn)
            mine == {t \in SeqToSet(tasks) : t.id = item.id}
        IN  /\ (range.from = NULL /\ range.to = NULL) => mine = {}
            /\ ((range.from = NULL) # (range.to = NULL)) =>
                  /\ mine # {}
                  /\ \A t \in mine : t.startDate = range.from /\ t.endDate = range.to

\* C1 witness: a task with exactly one null endpoint is in the output while
\* another processed item, with both endpoints null, has no task.
C1_Witness ==
    /\ \E t \in SeqToSet(tasks) : (t.startDate = NULL) # (t.endDate = NULL)
    /\ \E item \in ProcessedItems :
          /\ item.column_values # <<>>
          /\ \A t \in SeqToSet(tasks) : t.id # item.id

\* C2: the progress of every derived task is a number in [0, 100], whatever the
\* payload of the progress field.
C2_ProgressInRange ==
    \A t \in SeqToSet(tasks) :
        t.progress.t = "number" /\ t.progress.n >= 0 /\ t.progress.n <= 100

----------------------------------------------------------------------------
(* Claims about the comparator *)

\* C3: for the sort key in use, every pair of derived tasks that the comparator
\* does not rank as tied under asc is ranked in the opposite order under desc,
\* also when one of the two values is null or absent.
C3_DescReversesAsc ==
    settings.sortByColumn # Unset =>
        \A a \in SeqToSet(tasks), b \in SeqToSet(tasks) :
            Order(a, b, settings.sortByColumn, "asc") # 0 =>
                Order(a, b, settings.sortByColumn, "desc")
                    = 0 - Order(a, b, settings.sortByColumn, "asc")

----------------------------------------------------------------------------
(* Claims about the chart *)

\* the places <<g, r>> of the rendered rows: row r of bucket g
RowPlaces ==
    UNION {{<<g, r>> : r \in 1..Len(chart.groupedTasks[g].tasks)} :
             g \in 1..Len(chart.groupedTasks)}

RowTask(p) == chart.groupedTasks[p[1]].tasks[p[2]]

DurationDays(t) == t.endDate.day - t.startDate.day

\* C5: no bar is narrower than half a day width, and among the bars of one
\* render a task of longer or equal duration never has the narrower bar.
C5_WidthFloorAndMonotonic ==
    chart.rendered =>
        /\ \A p \in RowPlaces :
              FracLeq(FracHalf(chart.dayWidth), chart.bars[p[1]][p[2]].width)
        /\ \A p \in RowPlaces, q \in RowPlaces :
              DurationDays(RowTask(p)) <= DurationDays(RowTask(q)) =>
                  FracLeq(chart.bars[p[1]][p[2]].width, chart.bars[q[1]][q[2]].width)

\* C5 witness: one render shows a task whose end precedes its start, a
\* same-day task and a wider bar of a longer task.
C5_Witness ==
    /\ chart.rendered
    /\ \E p \in RowPlaces, q \in RowPlaces, r \in RowPlaces :
          /\ DurationDays(RowTask(p)) < 0
          /\ DurationDays(RowTask(q)) = 0
          /\ DurationDays(RowTask(r)) > 0
          /\ ~FracLeq(chart.bars[r[1]][r[2]].width, chart.bars[q[1]][q[2]].width)

\* the days of the non-null dates of a set of tasks
DaysOf(ts) ==
    {t.startDate.day : t \in {u \in ts : HasDate(u.startDate)}}
    \cup {t.endDate.day : t \in {u \in ts : HasDate(u.endDate)}}

SetMin(S) == CHOOSE m \in S : \A x \in S : m <= x

SetMax(S) == CHOOSE m \in S : \A x \in S : m >= x

BothDates(ts) == {t \in ts : HasDate(t.startDate) /\ HasDate(t.endDate)}

----------------------------------------------------------------------------
(* Claims about the drag *)

\* the onUpdate calls of the latest mousemove event
Emitted == SeqToSet(lastEmitted)

\* the deltaDays of the call u: the pointer's distance from the x of the anchor,
\* in day widths of the session that made the call, rounded
DeltaDays(u) == deltaDaysOf(u.x - dragStartRef.x, listeners[u.session].dayWidth)

\* C7: every update of a resize-left drag keeps the end the anchor and the bar's
\* task hold, and its start is the smaller of anchor start + deltaDays and the
\* anchor end, so the start is never after the end.
C7_ResizeLeftClamped ==
    \A u \in Emitted :
        u.type = "resize-left" =>
            /\ u.endDate = dragStartRef.endDate
            /\ u.endDate = BarTask.endDate
            /\ u.startDate
                  = Date(Min(dragStartRef.startDate.day + DeltaDays(u),
                             dragStartRef.endDate.day))
            /\ u.startDate.day <= u.endDate.day

\* C7 witness: a resize-left drag of a task that ends after it starts is moved
\* by more days than the task is long, and the update's start is its end.
C7_Witness ==
    \E u \in Emitted :
        /\ u.type = "resize-left"
        /\ dragStartRef.endDate.day > dragStartRef.startDate.day
        /\ DeltaDays(u) > dragStartRef.endDate.day - dragStartRef.startDate.day
        /\ u.startDate = u.endDate
        /\ u.endDate = dragStartRef.endDate

\* C8: every update of a resize-right drag keeps the start the anchor and the
\* bar's task hold, and its end is the larger of anchor end + deltaDays and the
\* anchor start, so the end never precedes the start.
C8_ResizeRightClamped ==
    \A u \in Emitted :
        u.type = "resize-right" =>
            /\ u.startDate = dragStartRef.startDate
            /\ u.startDate = BarTask.startDate
            /\ u.endDate
                  = Date(Max(dragStartRef.endDate.day + DeltaDays(u),
                             dragStartRef.startDate.day))
            /\ u.endDate.day >= u.startDate.day

\* C8 witness: a resize-right drag of a task that ends after it starts is moved
\* back by more days than the task is long, and the update's end is its start.
C8_Witness ==
    \E u \in Emitted :
        /\ u.type = "resize-right"
        /\ dragStartRef.endDate.day > dragStartRef.startDate.day
        /\ dragStartRef.endDate.day + DeltaDays(u) < dragStartRef.startDate.day
        /\ u.endDate = u.startDate
        /\ u.startDate = dragStartRef.startDate

\* C9: every update of a move drag has both endpoints of the anchor shifted by
\* one number of days, that number is the pointer's distance from the anchor's x
\* divided by the day width and rounded (halves up), and the update's range is
\* as long as the task's.
C9_MoveShiftsBoth ==
    \A u \in Emitted :
        u.type = "move" =>
            LET dw == listeners[u.session].dayWidth
                dx == u.x - dragStartRef.x
                dd == u.startDate.day - dragStartRef.startDate.day
            IN  /\ u.endDate.day - dragStartRef.endDate.day = dd
                /\ 2 * dd * dw.num - dw.num <= 2 * dx * dw.den
                /\ 2 * dx * dw.den < 2 * dd * dw.num + dw.num
                /\ u.endDate.day - u.startDate.day = DurationDays(BarTask)

\* C9 witness: a move drag emits a range shifted by a number of days other
\* than zero, after a pointer distance that is not a whole number of day widths.
C9_Witness ==
    \E u \in Emitted :
        /\ u.type = "move"
        /\ u.startDate.day # dragStartRef.startDate.day
        /\ u.endDate.day - dragStartRef.endDate.day
              = u.startDate.day - dragStartRef.startDate.day
        /\ LET dw == listeners[u.session].dayWidth
           IN  ((u.x - dragStartRef.x) * dw.den) % dw.num # 0

\* C10: within one drag session, two movement samples at the same pointer x
\* emit the same range: whenever the first session emits at the x of its first
\* update, it emits the range of that update.
C10_RangeFromAnchorKindAndX ==
    \A u \in Emitted :
        (probe.set /\ u.session = 1 /\ u.x = probe.x) =>
            /\ u.startDate = probe.startDate
            /\ u.endDate = probe.endDate

\* C11: the controller is idle (no anchor, no document listeners) or dragging
\* (an anchor and listeners); a mouse-down leads to dragging with the dates of
\* the bar's task as the anchor, a mouse-up leads to idle with the anchor
\* discarded and the listeners removed, and no step taken while idle emits.
C11_IdleOrDragging ==
    /\ ~isDragging /\ ~dragStartRef.set /\ listeners = <<>>
    /\ [][/\ isDragging' = (listeners' # <<>>)
          /\ dragStartRef'.set = isDragging'
          /\ Len(listeners') > Len(listeners) =>
                /\ isDragging'
                /\ dragStartRef'.startDate = BarTask.startDate
                /\ dragStartRef'.endDate = BarTask.endDate
                /\ dragType' \in DragTypes
          /\ (listeners # <<>> /\ listeners' = <<>>) =>
                /\ ~isDragging'
                /\ dragStartRef' = NoAnchor
                /\ dragType' = Unset
          /\ ~isDragging => lastEmitted' = <<>>]_vars

\* C11 witness: a drag is running with its anchor captured, and a movement
\* sample has emitted an update.
C11_Witness ==
    /\ isDragging
    /\ dragStartRef.set
    /\ Len(listeners) = 1
    /\ lastEmitted # <<>>

\* C12: a single movement sample emits at most one update.
C12_OneUpdatePerSample == Len(lastEmitted) <= 1

----------------------------------------------------------------------------
(* Claims about the order of the task list *)

\* whether the task has no value for the sort key: a null date, or no field of
\* that id
NoSortValue(t, key) ==
    CASE key = "name" -> FALSE
      [] key = "start_date" -> t.startDate = NULL
      [] key = "end_date" -> t.endDate = NULL
      [] OTHER -> Find(t.originalItem.column_values, LAMBDA cv : cv.id = key) = <<>>

\* C16: under ascending direction, in the sorted task list every task without
\* a value for the sort key stands after every task with a value for it.
C16_NullsLastAscending ==
    (settings.sortByColumn # Unset /\ settings.sortDirection = "asc") =>
        \A i \in 1..Len(tasks), j \in 1..Len(tasks) :
            (/\ NoSortValue(tasks[i], settings.sortByColumn)
             /\ ~NoSortValue(tasks[j], settings.sortByColumn)) => i > j

\* C17: for the sort key and direction in use, the comparator of sortTasks is
\* a total preorder on the derived tasks: swapping the arguments flips the
\* sign, and a <= b and b <= c give a <= c.
C17_ComparatorTotalPreorder ==
    settings.sortByColumn # Unset =>
        LET Cmp(a, b) == Order(a, b, settings.sortByColumn, settings.sortDirection)
            T == SeqToSet(tasks)
        IN  /\ \A a \in T, b \in T : Cmp(a, b) = 0 - Cmp(b, a)
            /\ \A a \in T, b \in T, c \in T :
                  (Cmp(a, b) <= 0 /\ Cmp(b, c) <= 0) => Cmp(a, c) <= 0

----------------------------------------------------------------------------
(* Claims about children without a parent in the chart *)

\* the rows of the bucket of a group key in a grouped output; none when there
\* is no such bucket
BucketRows(grouped, key) ==
    LET at == {g \in 1..Len(grouped) : grouped[g].key = key}
    IN  IF at = {} THEN <<>> ELSE grouped[CHOOSE g \in at : TRUE].tasks

\* the valid tasks of the last render whose parentId names no row of any bucket
Orphaned ==
    {c \in SeqToSet(chart.validTasks) :
        /\ c.parentId # Unset
        /\ \A p \in RowPlaces : RowTask(p).id # c.parentId}

\* the group keys of the valid tasks of the last render
GroupKeys == {GroupKey(t) : t \in SeqToSet(chart.validTasks)}

C19_OrphanAppended ==
    chart.rendered =>
        \A c \in Orphaned :
            LET rows == BucketRows(chart.groupedTasks, GroupKey(c))
            IN  rows # <<>> /\ rows[Len(rows)] = c

----------------------------------------------------------------------------
(* Claims about the hierarchy of the derived list *)

\* C20: every derived task with a parentId comes from a subitem of a root item
\* of the stored items, its parentId is the id of that root item, the task of
\* that root item is in the list and has no parentId, and subitems are shown.
C20_OneLevelHierarchy ==
    \A t \in SeqToSet(tasks) :
        t.parentId # Unset =>
            /\ settings.showSubitems
            /\ \E e \in SeqToSet(allItems) :
                  \E r \in SeqToSet(e.items) :
                      /\ \E s \in SeqToSet(r.subitems) : t.originalItem = s /\ t.id = s.id
                      /\ t.parentId = r.id
                      /\ \E p \in SeqToSet(tasks) :
                            /\ p.id = r.id
                            /\ p.originalItem = r
                            /\ p.parentId = Unset

\* C20 witness: the derived list holds a task with a parentId and its parent.
C20_Witness ==
    \E t \in SeqToSet(tasks), p \in SeqToSet(tasks) :
        t.parentId # Unset /\ p.id = t.parentId /\ settings.showSubitems

----------------------------------------------------------------------------
(* Claims about the retrieval *)

\* C13: a running getAllBoardItems call has one getBoardItems call, running or
\* returned, per board id asked for; the list it returns has one entry per id
\* asked for, empty for the boards whose retrieval failed and equal to the
\* board's items for the others, and loadTasks does not end in its catch.
C13_EntryPerRequestedBoard ==
    /\ \A k \in 1..Len(loads) :
          /\ loads[k].pending \cup DOMAIN loads[k].results = SeqToSet(loads[k].ids)
          /\ loads[k].pending \cap DOMAIN loads[k].results = {}
    /\ error # LoadFailedMessage
    /\ lastLoad.done =>
          /\ {e.boardId : e \in SeqToSet(allItems)} = SeqToSet(lastLoad.ids)
          /\ \A i \in 1..Len(allItems), j \in 1..Len(allItems) :
                allItems[i].boardId = allItems[j].boardId => i = j
          /\ \A e \in SeqToSet(allItems) :
                e.items = IF e.boardId \in lastLoad.failed THEN <<>>
                          ELSE env.items[e.boardId]

\* C13 witness: a call for two boards has returned; the board asked for first
\* completed last and failed, the other gave its items.
C13_Witness ==
    /\ lastLoad.done
    /\ Len(lastLoad.ids) = 2
    /\ lastLoad.order = <<lastLoad.ids[2], lastLoad.ids[1]>>
    /\ lastLoad.failed = {lastLoad.ids[1]}
    /\ \E e \in SeqToSet(allItems) : e.boardId = lastLoad.ids[1] /\ e.items = <<>>
    /\ \E e \in SeqToSet(allItems) : e.boardId = lastLoad.ids[2] /\ e.items # <<>>

\* C14: when processItemsToGanttTasks has run, the items of every board asked
\* for are stored and the mirror mappings of every loaded board are stored.
C14_PipelineAfterJoins ==
    lastLoad.done =>
        /\ \A id \in SeqToSet(lastLoad.ids) :
              \E e \in SeqToSet(allItems) : e.boardId = id
        /\ \A b \in SeqToSet(boards) : b.id \in DOMAIN mirrorMappings

\* C15: after a loadTasks in which the retrieval of a board failed, the App is
\* in its error state or the latest notice is an error notice.
C15_FailureSurfaced ==
    (lastLoad.done /\ lastLoad.failed # {}) =>
        (error # Unset \/ notice = "error")

----------------------------------------------------------------------------
(* Claims about the extraction of fields *)

\* the field of the item with the given id, first one first
FieldOf(item, id) == SelectSeq(item.column_values, LAMBDA cv : cv.id = id)

\* the mirror field ids of the board's mappings that have a payload on the item
LiveMirrorIds(item, boardId) ==
    {m.mirrorColumnId : m \in
        {m \in SeqToSet(mirrorMappings[boardId]) :
            /\ FieldOf(item, m.mirrorColumnId) # <<>>
            /\ FieldOf(item, m.mirrorColumnId)[1].value.k # "none"}}

\* C21: the mirror data of every derived task has an entry for exactly the
\* mirror fields of the owning board's mappings that have a non-empty payload
\* on the item; the entry of a field whose payload is not JSON has the field's
\* display text both as its display value and as its raw value.
C21_MirrorEntries ==
    \A t \in SeqToSet(tasks) :
        /\ DOMAIN t.mirrorData = LiveMirrorIds(t.originalItem, t.boardId)
        /\ \A id \in DOMAIN t.mirrorData :
              LET field == FieldOf(t.originalItem, id)[1]
                  entry == t.mirrorData[id]
              IN  field.value.k = "notjson" =>
                    /\ entry.displayValue = field.text
                    /\ ~entry.rawValue.parsed
                    /\ entry.rawValue.raw = NotJsonText(field.text)

\* C21, the part that holds: the entries are those of the live mirror fields,
\* and an entry whose payload is not JSON is kept with the display text as its
\* display value.
C21_EntriesKept ==
    \A t \in SeqToSet(tasks) :
        /\ DOMAIN t.mirrorData = LiveMirrorIds(t.originalItem, t.boardId)
        /\ \A id \in DOMAIN t.mirrorData :
              FieldOf(t.originalItem, id)[1].value.k = "notjson" =>
                  t.mirrorData[id].displayValue = FieldOf(t.originalItem, id)[1].text

\* the places of the fields extractTimelineData may select: those with the
\* configured id, or of a date-bearing type when no id is configured
TimelineCandidates(item) ==
    {i \in 1..Len(item.column_values) :
        IF settings.timelineColumn # Unset
        THEN item.column_values[i].id = settings.timelineColumn
        ELSE item.column_values[i].type \in {"timeline", "date", "creation_log"}}

\* the date under a key of a decoded payload, null when the payload is not an
\* object or the key does not hold the text of a date
DateAt(payload, key) ==
    IF /\ payload.k = "json"
       /\ payload.v.t = "object"
       /\ key \in DOMAIN payload.v.f
       /\ payload.v.f[key].t = "string"
       /\ payload.v.f[key].s = "YYYY-MM-DD"
    THEN Date(payload.v.f[key].day) ELSE NULL

\* the range the claim gives an item: that of the first candidate field
ClaimedRange(item) ==
    IF TimelineCandidates(item) = {} THEN [from |-> NULL, to |-> NULL]
    ELSE LET first == CHOOSE i \in TimelineCandidates(item) :
                          \A j \in TimelineCandidates(item) : i <= j
             field == item.column_values[first]
         IN  CASE field.type = "timeline" ->
                    [from |-> DateAt(field.value, "from"), to |-> DateAt(field.value, "to")]
               [] field.type = "date" ->
                    [from |-> DateAt(field.value, "date"), to |-> DateAt(field.value, "date")]
               [] OTHER -> [from |-> NULL, to |-> NULL]

\* C22: the range of an item comes from the field with the configured id, or
\* else from the first field of type timeline, date or creation_log; a timeline
\* field gives its start and end independently, a date field one date as both,
\* and a missing field, an empty or malformed payload or another type gives
\* no date, so that the item gives no task; no later field is tried.
C22_TimelineFieldSelected ==
    \A item \in ProcessedItems :
        LET range == ClaimedRange(item)
            mine == {t \in SeqToSet(tasks) : t.id = item.id}
        IN  IF range.from = NULL /\ range.to = NULL THEN mine = {}
            ELSE /\ mine # {}
                 /\ \A t \in mine : t.startDate = range.from /\ t.endDate = range.to

\* whether the date keys of every field of the item hold a date text or nothing
DatesWellFormed(item) ==
    \A i \in 1..Len(item.column_values) :
        LET payload == item.column_values[i].value
        IN  (payload.k = "json" /\ payload.v.t = "object") =>
                \A key \in DOMAIN payload.v.f \cap {"from", "to", "date"} :
                    payload.v.f[key].t = "string" => payload.v.f[key].s = "YYYY-MM-DD"

\* C22 where no date key holds a text that is not a date: the selection rule
\* and the other fall-backs of the claim.
C22_SelectedWhenDatesWellFormed ==
    \A item \in ProcessedItems :
        DatesWellFormed(item) =>
            LET range == ClaimedRange(item)
                mine == {t \in SeqToSet(tasks) : t.id = item.id}
            IN  IF range.from = NULL /\ range.to = NULL THEN mine = {}
                ELSE /\ mine # {}
                     /\ \A t \in mine : t.startDate = range.from /\ t.endDate = range.to

\* the color a payload holds under "color" once decoded, the default otherwise
PayloadColor(payload) ==
    IF /\ payload.k = "json"
       /\ payload.v.t = "object"
       /\ "color" \in DOMAIN payload.v.f
       /\ payload.v.f["color"].t = "string"
       /\ payload.v.f["color"].s # ""
    THEN payload.v.f["color"].s ELSE DefaultColor

\* a label, or 'Unknown' for an empty one
LabelOr(text, fallback) == IF text # <<>> THEN text ELSE fallback

----------------------------------------------------------------------------
(* Claims about the window and the scale *)

\* whether two pixel quantities are the same number
FracEq(a, b) == a # NaNFrac /\ b # NaNFrac /\ a.num * b.den = b.num * a.den

\* whether GanttChart has computed a window
WindowExists == chart.rendered /\ chart.dateRange.start # NULL

\* whether every date of the tasks the chart shows is a date
DatesValid ==
    \A t \in SeqToSet(chart.validTasks) :
        t.startDate # InvalidDate /\ t.endDate # InvalidDate

\* C24: whenever a window exists, its length totalDays is a number of days of
\* at least 14, and dayWidth is max(20, max(800, viewport width - 350) /
\* totalDays), a number that is at least 20.
C24_DayWidthFormula ==
    WindowExists =>
        /\ chart.dateRange.start # InvalidDate
        /\ chart.dateRange.end # InvalidDate
        /\ chart.dateRange.end.day - chart.dateRange.start.day >= 14
        /\ LET totalDays == chart.dateRange.end.day - chart.dateRange.start.day
               available == IF env.innerWidth - 350 > 800
                            THEN env.innerWidth - 350 ELSE 800
           IN  /\ chart.dayWidth # NaNFrac
               /\ IF available >= 20 * totalDays
                  THEN FracEq(chart.dayWidth, Frac(available, totalDays))
                  ELSE FracEq(chart.dayWidth, Frac(20, 1))
               /\ chart.dayWidth.num >= 20 * chart.dayWidth.den

\* C24 for the lists in which every date of a shown task is a date.
C24_DayWidthWhenDatesValid == DatesValid => C24_DayWidthFormula

\* whether a task has both dates, both of them dates, with start <= end
HasOrderedDates(t) ==
    /\ t.startDate # NULL /\ t.startDate # InvalidDate
    /\ t.endDate # NULL /\ t.endDate # InvalidDate
    /\ t.startDate.day <= t.endDate.day

\* whether the bar lies inside the window of the chart
BarInside(bar) ==
    /\ chart.dateRange.start # InvalidDate
    /\ chart.dateRange.end # InvalidDate
    /\ chart.dayWidth # NaNFrac
    /\ bar.leftOffset # NaNFrac
    /\ bar.width # NaNFrac
    /\ FracLeq(FracTimes(chart.dayWidth, PaddingDays), bar.leftOffset)
    /\ FracLeq(Frac(0, 1), bar.leftOffset)
    /\ FracLeq(FracPlus(bar.leftOffset, bar.width),
               FracTimes(chart.dayWidth,
                         chart.dateRange.end.day - chart.dateRange.start.day))

\* C28: every bar of a task that has both dates with start <= end lies inside
\* the window: leftOffset >= 7 * dayWidth (so never negative) and
\* leftOffset + width <= totalDays * dayWidth, with the window and the
\* dayWidth computed from the same task list.
C28_BarsInsideWindow ==
    chart.rendered =>
        \A g \in 1..Len(chart.groupedTasks) :
            \A r \in 1..Len(chart.groupedTasks[g].tasks) :
                HasOrderedDates(chart.groupedTasks[g].tasks[r]) =>
                    BarInside(chart.bars[g][r])

\* C28 for the lists in which every date of a shown task is a date.
C28_BarsInsideWhenDatesValid == DatesValid => C28_BarsInsideWindow

----------------------------------------------------------------------------
(* Claims about the mirror mappings *)

\* whether the text under a key of the settings names something
Names(settings_str, key) ==
    /\ settings_str.k = "json"
    /\ settings_str.v.t = "object"
    /\ key \in DOMAIN settings_str.v.f
    /\ settings_str.v.f[key].t = "string"
    /\ settings_str.v.f[key].s # ""

\* whether a field of a board is a mirror field whose settings parse and name
\* a source board and a source field that the source query finds
Resolvable(col) ==
    /\ col.type \in {"mirror", "lookup"}
    /\ Names(col.settings_str, "mirrorBoardId")
    /\ Names(col.settings_str, "mirrorColumnId")
    /\ LET b == col.settings_str.v.f["mirrorBoardId"].s
           c == col.settings_str.v.f["mirrorColumnId"].s
       IN  /\ b \in DOMAIN env.sources
           /\ env.sources[b].k = "found"
           /\ \E i \in 1..Len(env.sources[b].board.columns) :
                 env.sources[b].board.columns[i].id = c

\* C25: the mappings stored for a board hold exactly one mapping for each of
\* its mirror or lookup fields whose settings parse, name a source board and a
\* source field, and whose source board and field are found, naming that
\* source; the other fields (settings unparsable or incomplete, source query
\* rejected or empty) have no mapping and take none away from the others.
C25_MappingPerResolvableField ==
    \A b \in DOMAIN mirrorMappings :
        LET cols == SeqToSet(env.columns[b])
            maps == mirrorMappings[b]
        IN  /\ \A col \in cols :
                  LET mine == {k \in 1..Len(maps) : maps[k].mirrorColumnId = col.id}
                  IN  IF Resolvable(col)
                      THEN /\ Cardinality(mine) = 1
                           /\ \A k \in mine :
                                 LET source == env.sources[maps[k].sourceBoardId].board
                                 IN  /\ maps[k].sourceBoardId
                                            = col.settings_str.v.f["mirrorBoardId"].s
                                     /\ maps[k].sourceColumnId
                                            = col.settings_str.v.f["mirrorColumnId"].s
                                     /\ maps[k].sourceBoardName = source.name
                                     /\ maps[k].mirrorColumnTitle = col.title
                                     /\ maps[k].targetBoardId = b
                      ELSE mine = {}
            /\ \A k \in 1..Len(maps) : \E col \in cols : maps[k].mirrorColumnId = col.id

\* C25 witness: the board's mappings are stored and hold the mapping of its
\* second field alone, the first being a mirror field whose source query
\* rejected.
C25_Witness ==
    /\ initPc = "done"
    /\ "b1" \in DOMAIN mirrorMappings
    /\ Len(mirrorMappings["b1"]) = 1
    /\ mirrorMappings["b1"][1].mirrorColumnId = "c2"
    /\ env.columns["b1"][1].type = "mirror"
    /\ Names(env.columns["b1"][1].settings_str, "mirrorBoardId")
    /\ Names(env.columns["b1"][1].settings_str, "mirrorColumnId")
    /\ env.columns["b1"][1].settings_str.v.f["mirrorBoardId"].s = "b3"
    /\ env.sources["b3"] = SourceRejects

----------------------------------------------------------------------------
(* Claims about the order of the derived list *)

\* whether an item gives a task
GivesTask(item) ==
    extractTimelineData(item, settings.timelineColumn) # [from |-> NULL, to |-> NULL]

\* the ids of the items that give a task, in arrival order: the entries of the
\* stored items of known boards in their order, the items of an entry in
\* their order, the subitems of an item right after it
ArrivalIds ==
    LET OfItem(r) ==
            IF ~GivesTask(r) THEN <<>>
            ELSE <<r.id>> \o
                 (IF settings.showSubitems
                  THEN Flatten([i \in 1..Len(r.subitems) |->
                                   IF GivesTask(r.subitems[i])
                                   THEN <<r.subitems[i].id>> ELSE <<>>])
                  ELSE <<>>)
        OfEntry(e) ==
            IF \E b \in SeqToSet(boards) : b.id = e.boardId
            THEN Flatten([i \in 1..Len(e.items) |-> OfItem(e.items[i])])
            ELSE <<>>
    IN  Flatten([k \in 1..Len(allItems) |-> OfEntry(allItems[k])])

\* the ids of the derived tasks, in their order
TaskIds == [i \in 1..Len(tasks) |-> tasks[i].id]

\* whether the sort key names a field that no item of a derived task has
KeyNamesNoField ==
    /\ settings.sortByColumn \notin {Unset, "name", "start_date", "end_date"}
    /\ \A t \in SeqToSet(tasks) : FieldOf(t.originalItem, settings.sortByColumn) = <<>>

\* C26: with no sort key, or one that names a field no item of a task has,
\* the derived tasks are in arrival order; with any sort key they are a
\* permutation of the list in arrival order.
C26_ArrivalOrderKept ==
    /\ (settings.sortByColumn = Unset \/ KeyNamesNoField) => TaskIds = ArrivalIds
    /\ Len(TaskIds) = Len(ArrivalIds)
    /\ \A id \in SeqToSet(TaskIds) \cup SeqToSet(ArrivalIds) :
          Cardinality({i \in 1..Len(TaskIds) : TaskIds[i] = id})
              = Cardinality({i \in 1..Len(ArrivalIds) : ArrivalIds[i] = id})

\* C26 witness: the sort key names a field no item has, and the derived list
\* holds tasks of both boards and a subitem task right after its parent's,
\* in an order that is not the order of the names.
C26_Witness ==
    /\ settings.sortByColumn = "nofield"
    /\ Len(tasks) >= 3
    /\ tasks[1].boardId = "b1"
    /\ tasks[Len(tasks)].boardId = "b2"
    /\ tasks[2].parentId = tasks[1].id
    /\ localeCompare(ToLowerCase(tasks[1].name), ToLowerCase(tasks[2].name)) > 0

----------------------------------------------------------------------------
(* Claims about overlapping loadTasks calls *)

\* every run of initializeWidget, of the effect and of loadTasks has finished,
\* and the retrieval that returned last lost no board
AllRunsFinished ==
    /\ initPc = "done"
    /\ ~effectDue
    /\ loads = <<>>
    /\ error = Unset
    /\ lastLoad.done
    /\ lastLoad.failed = {}

\* C27: once all overlapping loadTasks runs have finished, in whatever order
\* their retrievals completed, the task list is the one derived from the
\* current settings and board selection; an older run that completes last does
\* not overwrite the result of a newer one.
C27_NewestRunWins ==
    AllRunsFinished =>
        tasks = processItemsToGanttTasks(getAllBoardItems(SelectedBoardIds), settings)

----------------------------------------------------------------------------
(* Claims about the buckets of the chart *)

\* whether GanttChart has been given a task list that holds tasks
GivenTasks == chart.tasks # <<>>

\* whether the ids of the tasks given to the chart are pairwise distinct
DistinctIds ==
    \A i \in 1..Len(chart.tasks), j \in 1..Len(chart.tasks) :
        chart.tasks[i].id = chart.tasks[j].id => i = j

\* the tasks given to the chart that have both dates: the root tasks of a
\* group key, in arrival order, and the child tasks
DatedRoots(key) ==
    SelectSeq(chart.tasks,
              LAMBDA t : /\ t.parentId = Unset
                         /\ HasDate(t.startDate) /\ HasDate(t.endDate)
                         /\ GroupKey(t) = key)

DatedTasks == {t \in SeqToSet(chart.tasks) : HasDate(t.startDate) /\ HasDate(t.endDate)}

\* the places of the rendered rows that show the task
PlacesOf(t) == {p \in RowPlaces : RowTask(p) = t}

\* C29: given tasks with pairwise distinct ids, every root task that has both
\* dates is a row exactly once, in the bucket keyed by its own group label
\* (or 'No Group'); the root tasks of a bucket are in arrival order; no child
\* task is a row more than once.
C29_RootsOncePerBucket ==
    (GivenTasks /\ DistinctIds) =>
        /\ \A t \in DatedTasks :
              IF t.parentId = Unset
              THEN /\ Cardinality(PlacesOf(t)) = 1
                   /\ \A p \in PlacesOf(t) : chart.groupedTasks[p[1]].key = GroupKey(t)
              ELSE Cardinality(PlacesOf(t)) <= 1
        /\ \A t \in DatedTasks :
              SelectSeq(BucketRows(chart.groupedTasks, GroupKey(t)),
                        LAMBDA row : row.parentId = Unset)
                = DatedRoots(GroupKey(t))

\* C29 for the lists in which no root task is in a group named as a property
\* every object inherits.
C29_RootsOnceUnderOwnKeys ==
    (\A t \in DatedTasks : t.parentId = Unset => GroupKey(t) \notin InheritedKeys)
        => C29_RootsOncePerBucket

----------------------------------------------------------------------------
(* Claims about the busy flags *)

\* C30: when every collaborator call settles, loading is eventually false
\* after every run of initializeWidget and isRefreshing is eventually false
\* after every run of handleRefresh, whether retrievals failed or not.
C30_BusyFlagsReturn ==
    /\ (initPc = "settings") ~> (initPc = "done" /\ ~loading)
    /\ isRefreshing ~> ~isRefreshing

\* C30 witness: initializeWidget has ended after the mirror query of the
\* board failed, a handleRefresh whose retrieval lost a board has
\* ended, and both flags are false.
C30_Witness ==
    /\ initPc = "done"
    /\ ~loading
    /\ mirrorMappings["b1"] = <<>>
    /\ lastLoad.done
    /\ lastLoad.refresh
    /\ lastLoad.failed # {}
    /\ loads = <<>>
    /\ ~isRefreshing


====
